---------------------------- MODULE Spec2Model ----------------------------
(***************************************************************************)
(* Model of the BOQ python scraper service: the task store and background  *)
(* worker of src/python-scraper/main.py and the crawl orchestrator of      *)
(* src/python-scraper/scraper.py.                                          *)
(*                                                                         *)
(* Text that the code lower-cases, searches or joins (names, URLs) is a    *)
(* sequence of one-character strings; status and stage labels, which the   *)
(* code only assigns and compares, are TLA+ strings.                       *)
(***************************************************************************)
EXTENDS Naturals, Sequences, FiniteSets, TLC

(***************************************************************************)
(* Bounds of the model                                                     *)
(***************************************************************************)
\* category descriptors the modelled landing page links to
NumCats == 2
\* pagination links on the first modelled category page
NumPag == 2
\* page fetches that may raise during one crawl
MaxFetchFailures == 1
\* cap of the bookkeeping counter of fetches made after a cancel request
MaxCount == 3
\* menu links on the landing page of the second modelled site
BigCats == 32
\* records in an aggregate product list handed to the final pass on its own
MaxAgg == 3
\* files in the brands directory when the service starts
MaxFiles == 2
\* records handed to persistence before clients stop submitting jobs
MaxSaved == 2
\* product containers on a page handed to the extractor on its own
MaxCards == 6
\* numbered pagination links on the second category page of the second modelled site
BigPag == 11

(***************************************************************************)
(* Text helpers (python str methods used by scraper.py)                    *)
(***************************************************************************)
UpperChars == <<"A", "B", "C", "D", "E", "F", "G", "H", "I", "J", "K", "L", "M", "N", "O", "P", "Q", "R", "S", "T", "U", "V", "W", "X", "Y", "Z">>
LowerChars == <<"a", "b", "c", "d", "e", "f", "g", "h", "i", "j", "k", "l", "m", "n", "o", "p", "q", "r", "s", "t", "u", "v", "w", "x", "y", "z">>
DigitChars == <<"0", "1", "2", "3", "4", "5", "6", "7", "8", "9">>

Range(s) == {s[i] : i \in 1..Len(s)}

\* str.lower() on one character
LowerChar(c) ==
    IF \E i \in 1..26 : UpperChars[i] = c
    THEN LowerChars[CHOOSE i \in 1..26 : UpperChars[i] = c]
    ELSE c

\* str.lower()
Lower(s) == [i \in 1..Len(s) |-> LowerChar(s[i])]

\* str.upper() on one character
UpperChar(c) ==
    IF \E i \in 1..26 : LowerChars[i] = c
    THEN UpperChars[CHOOSE i \in 1..26 : LowerChars[i] = c]
    ELSE c

IsAlpha(c) == c \in Range(UpperChars) \cup Range(LowerChars)

\* str.isalnum() on one character
IsAlnum(c) == IsAlpha(c) \/ c \in Range(DigitChars)

\* str.startswith
StartsWith(s, t) == Len(t) <= Len(s) /\ SubSeq(s, 1, Len(t)) = t

\* `t in s` for strings
Contains(s, t) ==
    \E i \in 0..Len(s) : i + Len(t) <= Len(s) /\ SubSeq(s, i + 1, i + Len(t)) = t

\* index of the first occurrence of character c in s, 0 when absent
IndexOf(s, c) ==
    IF \E i \in 1..Len(s) : s[i] = c
    THEN CHOOSE i \in 1..Len(s) : s[i] = c /\ \A k \in 1..(i - 1) : s[k] # c
    ELSE 0

\* s.split(c)[0]
SplitFirst(s, c) == IF IndexOf(s, c) = 0 THEN s ELSE SubSeq(s, 1, IndexOf(s, c) - 1)

\* str.strip() (blanks only)
Strip(s) ==
    IF \A i \in 1..Len(s) : s[i] = " "
    THEN << >>
    ELSE LET a == CHOOSE i \in 1..Len(s) : s[i] # " " /\ \A k \in 1..(i - 1) : s[k] = " "
             b == CHOOSE i \in 1..Len(s) : s[i] # " " /\ \A k \in (i + 1)..Len(s) : s[k] = " "
         IN  SubSeq(s, a, b)

\* str.strip('/')
StripSlash(s) ==
    IF \A i \in 1..Len(s) : s[i] = "/"
    THEN << >>
    ELSE LET a == CHOOSE i \in 1..Len(s) : s[i] # "/" /\ \A k \in 1..(i - 1) : s[k] = "/"
             b == CHOOSE i \in 1..Len(s) : s[i] # "/" /\ \A k \in (i + 1)..Len(s) : s[k] = "/"
         IN  SubSeq(s, a, b)

\* s.replace('-', ' ')
DashToSpace(s) == [i \in 1..Len(s) |-> IF s[i] = "-" THEN " " ELSE s[i]]

\* str.title(): upper-case the first letter of every run of letters, lower-case the rest
Title(s) ==
    [i \in 1..Len(s) |->
        IF i = 1 \/ ~IsAlpha(s[i - 1]) THEN UpperChar(s[i]) ELSE LowerChar(s[i])]

RECURSIVE SplitOn(_, _)
\* s.split(c)
SplitOn(s, c) ==
    IF IndexOf(s, c) = 0
    THEN << s >>
    ELSE << SubSeq(s, 1, IndexOf(s, c) - 1) >>
            \o SplitOn(SubSeq(s, IndexOf(s, c) + 1, Len(s)), c)

\* the scheme and host part of the modelled site's URLs
Scheme == <<"h", "t", "t", "p", ":", "/", "/">>

\* scheme://netloc of an absolute URL
Origin(u) == Scheme \o SplitFirst(SplitFirst(SubSeq(u, Len(Scheme) + 1, Len(u)), "/"), "?")

\* urlparse(u).path
UrlPath(u) == SplitFirst(SplitFirst(SubSeq(u, Len(Origin(u)) + 1, Len(u)), "?"), "#")

\* index of the last occurrence of character c in s, 0 when absent
LastIndexOf(s, c) ==
    IF \E i \in 1..Len(s) : s[i] = c
    THEN CHOOSE i \in 1..Len(s) : s[i] = c /\ \A k \in (i + 1)..Len(s) : s[k] # c
    ELSE 0

\* the directory of a path: up to and with its last slash
DirOf(path) == IF LastIndexOf(path, "/") = 0 THEN <<"/">> ELSE SubSeq(path, 1, LastIndexOf(path, "/"))

\* a non-empty reference resolved against the origin and path of the base
JoinRef(origin, path, ref) ==
    IF StartsWith(ref, Scheme) THEN ref
    ELSE IF ref[1] = "/" THEN origin \o ref
    ELSE IF ref[1] = "?" THEN origin \o path \o ref
    ELSE origin \o DirOf(path) \o ref

\* urljoin raises ValueError ("Invalid IPv6 URL") on a reference whose host opens a
\* bracket and never closes it
UrlRaises(ref) == StartsWith(ref, <<"h", "t", "t", "p", ":", "/", "/", "[">>)

\* urllib.parse.urljoin for the reference shapes the modelled pages use
urljoin(base, ref) == IF ref = << >> THEN base ELSE JoinRef(Origin(base), UrlPath(base), ref)

(***************************************************************************)
(* scraper.py: configuration and pure helpers                              *)
(***************************************************************************)
PRODUCT_KEYWORDS ==
    { <<"p", "r", "o", "d", "u", "c", "t">>, <<"p", "r", "o", "d", "u", "c", "t", "s">>, <<"i", "t", "e", "m">>, <<"s", "h", "o", "p">>, <<"c", "o", "l", "l", "e", "c", "t", "i", "o", "n">>, <<"c", "a", "t", "e", "g", "o", "r", "y">>,
      <<"f", "u", "r", "n", "i", "t", "u", "r", "e">>, <<"c", "h", "a", "i", "r">>, <<"d", "e", "s", "k">>, <<"t", "a", "b", "l", "e">>, <<"s", "e", "a", "t", "i", "n", "g">> }

EXCLUDE_KEYWORDS ==
    { <<"c", "o", "n", "t", "a", "c", "t">>, <<"a", "b", "o", "u", "t">>, <<"l", "o", "g", "i", "n">>, <<"c", "a", "r", "t">>, <<"p", "r", "i", "v", "a", "c", "y">>, <<"s", "o", "c", "i", "a", "l">>, <<"n", "e", "w", "s">>, <<"b", "l", "o", "g">>,
      <<"t", "e", "r", "m", "s">>, <<"c", "a", "r", "e", "e", "r", "s">>, <<"a", "c", "c", "o", "u", "n", "t">>, <<"f", "a", "q">>, <<"i", "n", "s", "t", "a", "g", "r", "a", "m">>, <<"f", "a", "c", "e", "b", "o", "o", "k">>, <<"t", "w", "i", "t", "t", "e", "r">>,
      <<"y", "o", "u", "t", "u", "b", "e">>, <<"l", "i", "n", "k", "e", "d", "i", "n">> }

IMAGE_EXCLUDE ==
    { <<"l", "o", "g", "o">>, <<"i", "c", "o", "n">>, <<"a", "r", "r", "o", "w">>, <<"c", "h", "e", "v", "r", "o", "n">>, <<"p", "l", "a", "c", "e", "h", "o", "l", "d", "e", "r">>, <<"b", "l", "a", "n", "k">>, <<"l", "o", "a", "d", "i", "n", "g">>,
      <<"s", "p", "i", "n", "n", "e", "r">>, <<"s", "o", "c", "i", "a", "l">>, <<"b", "a", "n", "n", "e", "r">> }

\* minimum length of an image URL
MinImageUrlLen == 10

\* a variant of is_valid_product_image that looks for the tokens in the URL as written
is_valid_product_image_cased(url) ==
    IF url = << >> \/ Len(url) < MinImageUrlLen
    THEN FALSE
    ELSE ~ \E term \in IMAGE_EXCLUDE : Contains(url, term)

is_valid_product_image(url) ==
    IF url = << >> \/ Len(url) < MinImageUrlLen
    THEN FALSE
    ELSE ~ \E term \in IMAGE_EXCLUDE : Contains(Lower(url), term)

\* the value python's None takes in the model where a label pair is returned
NoneLabel == << >>

\* the label of one path segment
SegmentLabel(part) == Title(DashToSpace(part))

\* the pair for the path segments that are left after filtering
LabelsOfParts(parts) ==
    IF Len(parts) >= 2
    THEN IF SegmentLabel(parts[1]) # SegmentLabel(parts[Len(parts)])
         THEN << SegmentLabel(parts[1]), SegmentLabel(parts[Len(parts)]) >>
         ELSE << NoneLabel, NoneLabel >>
    ELSE IF Len(parts) = 1
    THEN << SegmentLabel(parts[1]), SegmentLabel(parts[1]) >>
    ELSE << NoneLabel, NoneLabel >>

parse_woocommerce_category_url(url) ==
    LabelsOfParts(SelectSeq(SplitOn(StripSlash(UrlPath(url)), "/"),
                            LAMBDA p : p # << >> /\ p # <<"p", "r", "o", "d", "u", "c", "t", "-", "c", "a", "t", "e", "g", "o", "r", "y">>))

create_product(name, image_url, product_url, brand_name, main_category, sub_category) ==
    [ mainCategory |-> main_category,
      subCategory  |-> IF sub_category # << >> THEN sub_category ELSE main_category,
      family       |-> brand_name,
      model        |-> name,
      description  |-> name,
      imageUrl     |-> image_url,
      productUrl   |-> product_url,
      price        |-> 0 ]

(***************************************************************************)
(* scraper.py: extract_products_from_page                                  *)
(* A page is what the fetch capability returns, seen through the selectors *)
(* the code queries: page.woo are the containers the product-container     *)
(* selectors match (in selector order), page.generic the block elements    *)
(* holding both an image and a link, page.jsonld the nodes of the          *)
(* structured-data script blocks that parse.                               *)
(***************************************************************************)
MinTitleLen == 2
MinLinkTextLen == 5
MinGenericTitleLen == 3
StrategyBThreshold == 5

RECURSIVE PickTitleFrom(_, _)
\* the title selectors loop: the first candidate longer than two characters,
\* stripped; the last candidate as it is when none qualifies
PickTitleFrom(titles, i) ==
    IF i > Len(titles) THEN (IF Len(titles) = 0 THEN << >> ELSE titles[Len(titles)])
    ELSE IF titles[i] # << >> /\ Len(Strip(titles[i])) > MinTitleLen THEN Strip(titles[i])
    ELSE PickTitleFrom(titles, i + 1)

\* the fallback to the text of the container's link
TitleOrLinkText(t, link_text) ==
    IF t # << >> THEN t
    ELSE IF link_text # << >> /\ Len(Strip(link_text)) > MinTitleLen THEN Strip(link_text)
    ELSE << >>

ContainerTitle(c) == TitleOrLinkText(PickTitleFrom(c.titles, 1), c.link_text)

\* the first URL of a srcset attribute
SrcsetFirst(srcset) == SplitFirst(Strip(SplitFirst(srcset, ",")), " ")

\* src / data-src / data-lazy-src, overridden by the first URL of srcset
ContainerImage(c) ==
    IF c.srcset # << >> /\ SrcsetFirst(c.srcset) # << >> THEN SrcsetFirst(c.srcset) ELSE c.img_src

\* products.append(create_product(...)) and the additions to seen
AddProduct(acc, product, seen_keys) ==
    [products |-> Append(acc.products, product), seen |-> acc.seen \cup seen_keys]

\* lines 136-152: the URLs are resolved, a URL already seen is skipped
ResolvedA(acc, title, full_img, full_url, brand_name, main_category, sub_category) ==
    IF full_url \in acc.seen THEN acc
    ELSE AddProduct(acc,
                    create_product(title, full_img, full_url, brand_name, main_category, sub_category),
                    {Lower(title), full_url})

\* a variant of CardA without the test of line 112 that the container has a title
CardAUntitled(acc, title, img_src, href, base_url, brand_name, main_category, sub_category) ==
    IF \/ img_src = << >>
       \/ ~is_valid_product_image(img_src)
       \/ href = << >>
       \/ UrlRaises(img_src) \/ UrlRaises(href)
    THEN acc
    ELSE ResolvedA(acc, title, urljoin(base_url, img_src), urljoin(base_url, href),
                   brand_name, main_category, sub_category)

\* lines 112-134: the rejections of Strategy 1; a urljoin that raises at lines 136-137
\* is caught at line 154 and the container is skipped
CardA(acc, title, img_src, href, base_url, brand_name, main_category, sub_category) ==
    IF \/ title = << >>
       \/ Lower(title) \in acc.seen
       \/ img_src = << >>
       \/ ~is_valid_product_image(img_src)
       \/ href = << >>
       \/ UrlRaises(img_src) \/ UrlRaises(href)
    THEN acc
    ELSE ResolvedA(acc, title, urljoin(base_url, img_src), urljoin(base_url, href),
                   brand_name, main_category, sub_category)

RECURSIVE StrategyA(_, _, _, _, _, _, _)
StrategyA(cs, i, acc, base_url, brand_name, main_category, sub_category) ==
    IF i > Len(cs) THEN acc
    ELSE StrategyA(cs, i + 1,
                   CardA(acc, ContainerTitle(cs[i]), ContainerImage(cs[i]), cs[i].href,
                         base_url, brand_name, main_category, sub_category),
                   base_url, brand_name, main_category, sub_category)

\* lines 183-187: the heading text, else a link text longer than five characters
GenericTitle(c) ==
    IF c.heading # << >> THEN c.heading
    ELSE IF Len(Strip(c.link_text)) > MinLinkTextLen THEN Strip(c.link_text)
    ELSE << >>

\* lines 206-226
ResolvedB(acc, title, full_img, full_url, brand_name, main_category, sub_category) ==
    IF \/ full_url \in acc.seen
       \/ \E k \in 1..Len(acc.products) : acc.products[k].productUrl = full_url
    THEN acc
    ELSE AddProduct(acc,
                    create_product(title, full_img, full_url, brand_name, main_category, sub_category),
                    {Lower(title), full_url})

\* lines 189-204: the rejections of Strategy 2; a urljoin that raises at lines 210-211
\* is caught at line 228 and the container is skipped
CardB(acc, title, img_src, href, base_url, brand_name, main_category, sub_category) ==
    IF \/ title = << >>
       \/ Len(title) < MinGenericTitleLen
       \/ Lower(title) \in acc.seen
       \/ img_src = << >>
       \/ ~is_valid_product_image(img_src)
       \/ href = << >>
       \/ UrlRaises(href) \/ UrlRaises(img_src)
    THEN acc
    ELSE ResolvedB(acc, title, urljoin(base_url, img_src), urljoin(base_url, href),
                   brand_name, main_category, sub_category)

RECURSIVE StrategyB(_, _, _, _, _, _, _)
StrategyB(cs, i, acc, base_url, brand_name, main_category, sub_category) ==
    IF i > Len(cs) THEN acc
    ELSE StrategyB(cs, i + 1,
                   CardB(acc, GenericTitle(cs[i]), cs[i].img_src, cs[i].href,
                         base_url, brand_name, main_category, sub_category),
                   base_url, brand_name, main_category, sub_category)

\* lines 289-302: one entry of an ItemList node
ListEntry(acc, p_name, p_url, full_img, full_url, brand_name, main_category, sub_category) ==
    IF p_name # << >> /\ p_url # << >> /\ full_url \notin acc.seen
    THEN AddProduct(acc,
                    create_product(p_name, full_img, full_url, brand_name, main_category, sub_category),
                    {full_url})
    ELSE acc

\* lines 290-291: resolving the URLs of this entry raises
EntryRaises(e) ==
    /\ e.name # << >> /\ e.url # << >>
    /\ (UrlRaises(e.url) \/ (e.image # << >> /\ UrlRaises(e.image)))

RECURSIVE ItemListEntries(_, _, _, _, _, _, _)
\* the entries in order; an exception leaves the block (line 303), the records made
\* so far stay
ItemListEntries(es, i, acc, base_url, brand_name, main_category, sub_category) ==
    IF i > Len(es) THEN acc
    ELSE IF EntryRaises(es[i]) THEN acc
    ELSE ItemListEntries(es, i + 1,
                         ListEntry(acc, es[i].name, es[i].url,
                                   IF es[i].image # << >> THEN urljoin(base_url, es[i].image) ELSE << >>,
                                   urljoin(base_url, es[i].url),
                                   brand_name, main_category, sub_category),
                         base_url, brand_name, main_category, sub_category)

\* a variant of ProductNode without the test of line 264 that the node has a name
ProductNodeUnnamed(acc, p_name, p_img, full_img, full_url, brand_name, main_category, sub_category) ==
    IF /\ p_img # << >>
       /\ full_url \notin acc.seen /\ Lower(p_name) \notin acc.seen
    THEN AddProduct(acc,
                    create_product(p_name, full_img, full_url, brand_name, main_category, sub_category),
                    {full_url, Lower(p_name)})
    ELSE acc

\* lines 264-278: a Product node
ProductNode(acc, p_name, p_img, full_img, full_url, brand_name, main_category, sub_category) ==
    IF /\ p_name # << >> /\ p_img # << >>
       /\ full_url \notin acc.seen /\ Lower(p_name) \notin acc.seen
    THEN AddProduct(acc,
                    create_product(p_name, full_img, full_url, brand_name, main_category, sub_category),
                    {full_url, Lower(p_name)})
    ELSE acc

\* lines 265-266: resolving the URLs of a Product node raises
NodeRaises(it) ==
    /\ it.name # << >> /\ it.image # << >>
    /\ (UrlRaises(it.url) \/ UrlRaises(it.image))

\* lines 244-304: one structured-data block, holding one node. A block of type
\* "Unparsable" is one on which json.loads raises (line 246); an exception inside a
\* block is caught at line 303 and the loop goes on with the next block
JsonLdNode(acc, it, base_url, brand_name, main_category, sub_category) ==
    IF it.type = "Unparsable" \/ (it.type = "Product" /\ NodeRaises(it))
    THEN acc
    ELSE IF it.type = "Product"
    THEN ProductNode(acc, it.name, it.image, urljoin(base_url, it.image),
                     urljoin(base_url, IF it.url # << >> THEN it.url ELSE base_url),
                     brand_name, main_category, sub_category)
    ELSE IF it.type = "ItemList"
    THEN ItemListEntries(it.elements, 1, acc, base_url, brand_name, main_category, sub_category)
    ELSE acc

RECURSIVE StrategyC(_, _, _, _, _, _, _)
StrategyC(items, i, acc, base_url, brand_name, main_category, sub_category) ==
    IF i > Len(items) THEN acc
    ELSE StrategyC(items, i + 1,
                   JsonLdNode(acc, items[i], base_url, brand_name, main_category, sub_category),
                   base_url, brand_name, main_category, sub_category)

\* a variant of StrategyBIfFew without the test of line 161: the generic scan always runs
StrategyBAlways(page, a, base_url, brand_name, main_category, sub_category) ==
    StrategyB(page.generic, 1, a, base_url, brand_name, main_category, sub_category)

\* line 161: the generic scan runs when the containers gave fewer than five products
StrategyBIfFew(page, a, base_url, brand_name, main_category, sub_category) ==
    IF Len(a.products) < StrategyBThreshold
    THEN StrategyB(page.generic, 1, a, base_url, brand_name, main_category, sub_category)
    ELSE a

\* returns [products, seen]
extract_products_from_page(page, base_url, brand_name, main_category, sub_category) ==
    StrategyC(page.jsonld, 1,
              StrategyBIfFew(page,
                             StrategyA(page.woo, 1, [products |-> << >>, seen |-> {}],
                                       base_url, brand_name, main_category, sub_category),
                             base_url, brand_name, main_category, sub_category),
              base_url, brand_name, main_category, sub_category)

(***************************************************************************)
(* scraper.py: discover_category_pages                                     *)
(* page.menus holds, per top-level menu selector, the menu items it        *)
(* matches: [text, href, subs], subs being the links of the first submenu  *)
(* selector that matches inside the item; page.anchors are all the links.  *)
(***************************************************************************)
MinMenuTextLen == 2
MinAnchorTextLen == 2
MaxAnchorTextLen == 50

HasExcluded(s) == \E ex \in EXCLUDE_KEYWORDS : Contains(s, ex)

Descriptor(url, title, main, sub) ==
    [url |-> url, title |-> title, mainCategory |-> main, subCategory |-> sub]

\* categories.append(...) and seen.add(full_url), unless the URL is seen or the base URL
AddCategory(acc, full_url, title, main, sub, base_url) ==
    IF full_url \notin acc.seen /\ full_url # base_url
    THEN [ categories |-> Append(acc.categories, Descriptor(full_url, title, main, sub)),
           seen |-> acc.seen \cup {full_url} ]
    ELSE acc

\* lines 386-404: one link of a submenu
SubmenuLink(acc, sub_text, sub_href, main_text, base_url) ==
    IF /\ sub_href # << >> /\ sub_href # <<"#">> /\ sub_text # << >>
       /\ ~HasExcluded(Lower(sub_text))
    THEN AddCategory(acc, urljoin(base_url, sub_href), sub_text, main_text, sub_text, base_url)
    ELSE acc

RECURSIVE SubmenuLinks(_, _, _, _, _)
SubmenuLinks(subs, i, acc, main_text, base_url) ==
    IF i > Len(subs) THEN acc
    ELSE SubmenuLinks(subs, i + 1,
                      SubmenuLink(acc, Strip(subs[i].text), subs[i].href, main_text, base_url),
                      main_text, base_url)

\* lines 349-418: one top-level menu item
MenuItem(acc, item, main_text, base_url) ==
    IF main_text = << >> \/ Len(main_text) < MinMenuTextLen \/ HasExcluded(Lower(main_text))
    THEN acc
    ELSE IF Len(item.subs) > 0
    THEN SubmenuLinks(item.subs, 1, acc, main_text, base_url)
    ELSE IF item.href # << >> /\ item.href # <<"#">> /\ ~StartsWith(item.href, <<"j", "a", "v", "a", "s", "c", "r", "i", "p", "t">>)
    THEN AddCategory(acc, urljoin(base_url, item.href), main_text, main_text, main_text, base_url)
    ELSE acc

RECURSIVE MenuItems(_, _, _, _)
\* lines 367-420: the items in document order; acc is evaluated at every item, as the
\* loop's list and set are (the test on its length cannot fail)
MenuItems(items, i, acc, base_url) ==
    IF i > Len(items) \/ Len(acc.categories) < 0 THEN acc
    ELSE MenuItems(items, i + 1, MenuItem(acc, items[i], Strip(items[i].text), base_url), base_url)

RECURSIVE MenuSelectors(_, _, _, _)
RECURSIVE TryNextSelector(_, _, _, _)
\* lines 422-424: the first selector that yields any descriptor wins
TryNextSelector(menus, i, found, base_url) ==
    IF Len(found.categories) > 0 THEN found ELSE MenuSelectors(menus, i + 1, found, base_url)

MenuSelectors(menus, i, acc, base_url) ==
    IF i > Len(menus) THEN acc
    ELSE TryNextSelector(menus, i, MenuItems(menus[i], 1, acc, base_url), base_url)

\* lines 436-466: one link of the flat scan
FlatLink(acc, href, text, full_url, base_url) ==
    IF /\ href # << >> /\ href # <<"#">> /\ ~StartsWith(href, <<"j", "a", "v", "a", "s", "c", "r", "i", "p", "t">>)
       /\ StartsWith(full_url, base_url)
       /\ full_url \notin acc.seen /\ full_url # base_url
       /\ ~HasExcluded(Lower(href))
       /\ \E kw \in PRODUCT_KEYWORDS : Contains(Lower(href), kw) \/ Contains(Lower(text), kw)
       /\ Len(text) > MinAnchorTextLen /\ Len(text) < MaxAnchorTextLen
    THEN AddCategory(acc, full_url, text, text, text, base_url)
    ELSE acc

RECURSIVE FlatLinks(_, _, _, _)
FlatLinks(links, i, acc, base_url) ==
    IF i > Len(links) THEN acc
    ELSE FlatLinks(links, i + 1,
                   FlatLink(acc, links[i].href, Strip(links[i].text),
                            urljoin(base_url, links[i].href), base_url),
                   base_url)

\* a variant of FlatIfNone without the test of line 430: the flat scan always runs
FlatAlways(page, s1, base_url) == FlatLinks(page.anchors, 1, s1, base_url)

\* line 430: the flat scan runs when the menus gave nothing
FlatIfNone(page, s1, base_url) ==
    IF Len(s1.categories) = 0 THEN FlatLinks(page.anchors, 1, s1, base_url) ELSE s1

discover_category_pages(page, base_url) ==
    FlatIfNone(page, MenuSelectors(page.menus, 1, [categories |-> << >>, seen |-> {}], base_url),
               base_url).categories

(***************************************************************************)
(* scraper.py: find_pagination                                             *)
(* page.paglinks are the hrefs the pagination selectors match, in selector *)
(* order.                                                                  *)
(***************************************************************************)
MaxPaginationUrls == 10

\* lines 491-495: one link
PaginationLink(acc, href, full_url, base_url) ==
    IF /\ href # << >> /\ ~StartsWith(href, <<"#">>) /\ ~StartsWith(href, <<"j", "a", "v", "a", "s", "c", "r", "i", "p", "t">>)
       /\ StartsWith(full_url, base_url)
       /\ \A k \in 1..Len(acc) : acc[k] # full_url
    THEN Append(acc, full_url)
    ELSE acc

RECURSIVE PaginationLinks(_, _, _, _)
PaginationLinks(hrefs, i, acc, base_url) ==
    IF i > Len(hrefs) THEN acc
    ELSE PaginationLinks(hrefs, i + 1,
                         PaginationLink(acc, hrefs[i], urljoin(base_url, hrefs[i]), base_url),
                         base_url)

Take(s, n) == SubSeq(s, 1, IF Len(s) < n THEN Len(s) ELSE n)

\* a variant of find_pagination without the slice of line 502
find_pagination_uncapped(page, base_url) == PaginationLinks(page.paglinks, 1, << >>, base_url)

\* lines 478-502
find_pagination(page, base_url) ==
    Take(PaginationLinks(page.paglinks, 1, << >>, base_url), MaxPaginationUrls)

(***************************************************************************)
(* The modelled web site: what fetch(url) returns when it does not raise.  *)
(* One landing page whose menu links NumCats category pages; a category    *)
(* page lists products and one sub-category link; the first category page *)
(* also has NumPag pagination links and a link to itself.                  *)
(***************************************************************************)
LandingUrl == <<"h", "t", "t", "p", ":", "/", "/", "s", "/">>

Digit(k) == << DigitChars[k + 1] >>

CatPath(k) == <<"/", "c">> \o Digit(k) \o <<"/">>
PagPath(k, m) == CatPath(k) \o <<"p">> \o Digit(m) \o <<"/">>
SubPath(k) == CatPath(k) \o <<"s", "/">>

Woo(title, img, href) ==
    [titles |-> << title >>, link_text |-> << >>, img_src |-> img, srcset |-> << >>, href |-> href]

EmptyPage ==
    [ title |-> << >>, logo |-> << >>, woo |-> << >>, generic |-> << >>, jsonld |-> << >>,
      menus |-> << >>, anchors |-> << >>, paglinks |-> << >>, subcats |-> << >> ]

LandingPage ==
    [ EmptyPage EXCEPT
        !.title = <<"A", "c", "m", "e", " ", "|", " ", "H", "o", "m", "e">>,
        !.logo = <<"/", "i", "/", "l", "o", "g", "o", ".", "p", "n", "g">>,
        !.woo = << Woo(<<"D", "e", "s", "k">>, <<"/", "i", "/", "d", "e", "s", "k", "-", "1", ".", "j", "p", "g">>, <<"/", "p", "/", "d", "e", "s", "k">>),
                   Woo(<<"B", "r", "a", "n", "d">>, <<"/", "i", "/", "l", "o", "g", "o", "-", "b", "i", "g", ".", "p", "n", "g">>, <<"/", "p", "/", "b", "r", "a", "n", "d">>) >>,
        !.menus = << << >>,
                     << [text |-> <<"D", "e", "s", "k", "s">>, href |-> <<"/", "p", "/", "d", "e", "s", "k">>, subs |-> << >>] >> \o
                     [k \in 1..NumCats |->
                        [text |-> <<"C", "a", "t">> \o Digit(k), href |-> CatPath(k), subs |-> << >>]] >> ]

CategoryPage(k) ==
    [ EmptyPage EXCEPT
        !.title = <<"A", "c", "m", "e", " ", "-", " ", "C", "a", "t">>,
        !.woo = << Woo(<<"C", "h", "a", "i", "r">> \o Digit(k), <<"/", "i", "/", "c", "h", "a", "i", "r", "-">> \o Digit(k) \o <<".", "j", "p", "g">>, <<"/", "p", "/", "c", "h", "a", "i", "r">> \o Digit(k)),
                   Woo(<<"D", "E", "S", "K">>, <<"/", "i", "/", "d", "e", "s", "k", "-", "2", ".", "j", "p", "g">>, <<"/", "p", "/", "D", "e", "s", "k">>) >>,
        !.jsonld = << [type |-> "ItemList", name |-> << >>, image |-> << >>, url |-> << >>,
                       elements |-> << [name |-> <<"L", "a", "m", "p">>, url |-> <<"/", "p", "/", "l", "a", "m", "p">>, image |-> << >>] >>] >>,
        !.subcats = << [text |-> <<"S", "u", "b">>, href |-> SubPath(k)] >>,
        !.paglinks = IF k = 1 THEN [m \in 1..NumPag |-> PagPath(k, m)] \o << CatPath(k) >> ELSE << >> ]

PaginationPage(k, m) ==
    [ EmptyPage EXCEPT
        !.woo = << Woo(<<"S", "t", "o", "o", "l">> \o Digit(k) \o Digit(m), <<"/", "i", "/", "s", "t", "o", "o", "l", "-">> \o Digit(k) \o Digit(m) \o <<".", "j", "p", "g">>,
                       <<"/", "p", "/", "s", "t", "o", "o", "l">> \o Digit(k) \o Digit(m)) >> ]

PaginationPageAt(km) == PaginationPage(km[1], km[2])

\* a second site, for crawls whose landing page links more categories than one crawl
\* takes: BigCats menu links. Its first category page links a sub-category, names the
\* landing page among its pagination links, and carries structured data for a product
\* whose image is an icon; the second one carries the same product with a photograph.
BigUrl == <<"h", "t", "t", "p", ":", "/", "/", "b", "/">>

TwoDigits(k) == << DigitChars[(k \div 10) + 1], DigitChars[(k % 10) + 1] >>

BigPath(k) == <<"/", "k">> \o TwoDigits(k) \o <<"/">>

BigLandingPage ==
    [ EmptyPage EXCEPT
        !.title = <<"B", "i", "g">>,
        !.menus = << [k \in 1..BigCats |->
                        [text |-> <<"K">> \o TwoDigits(k), href |-> BigPath(k), subs |-> << >>]] >> ]

BigPagPath(m) == BigPath(2) \o <<"p">> \o TwoDigits(m) \o <<"/">>

\* what the pagination selectors match on the second category page: a fragment, a
\* script link, a link to another host, the numbered pages, and the first two again
BigPaginationHrefs ==
    (<< <<"#", "t", "o", "p">>, <<"j", "a", "v", "a", "s", "c", "r", "i", "p", "t", ":", "n", "e", "x", "t", "(", ")">>, <<"h", "t", "t", "p", ":", "/", "/", "x", "/", "k", "0", "2", "/", "p", "0", "1", "/">> >> \o [m \in 1..BigPag |-> BigPagPath(m)])
        \o << BigPagPath(2), BigPagPath(1) >>

JsonLdProduct(name, image, url) ==
    [type |-> "Product", name |-> name, image |-> image, url |-> url, elements |-> << >>]

BigCategoryPage(k) ==
    IF k = 1
    THEN [ EmptyPage EXCEPT
             !.subcats = << [text |-> <<"S", "u", "b">>, href |-> BigPath(1) \o <<"s", "/">>] >>,
             !.jsonld = << JsonLdProduct(<<"L", "a", "m", "p">>, <<"/", "i", "/", "l", "a", "m", "p", "-", "i", "c", "o", "n", ".", "p", "n", "g">>, <<"/", "p", "/", "l", "a", "m", "p">>) >>,
             !.paglinks = << <<"/">> >> ]
    ELSE [ EmptyPage EXCEPT
             !.jsonld = << JsonLdProduct(<<"L", "a", "m", "p">>, <<"/", "i", "/", "l", "a", "m", "p", ".", "j", "p", "g">>, <<"/", "p", "/", "l", "a", "m", "p">>) >>,
             !.paglinks = BigPaginationHrefs ]

\* one of the numbered pages of the second category of the second site
BigPaginationPage ==
    [ EmptyPage EXCEPT !.woo = << Woo(<<"S", "t", "o", "o", "l">>, <<"/", "i", "/", "s", "t", "o", "o", "l", ".", "j", "p", "g">>, <<"/", "p", "/", "s", "t", "o", "o", "l">>) >> ]

\* the page behind a URL of the sites
PageAt(url) ==
    IF url = LandingUrl THEN LandingPage
    ELSE IF url = BigUrl THEN BigLandingPage
    ELSE IF \E k \in 1..2 : url = Origin(BigUrl) \o BigPath(k)
    THEN BigCategoryPage(CHOOSE k \in 1..2 : url = Origin(BigUrl) \o BigPath(k))
    ELSE IF \E m \in 1..BigPag : url = Origin(BigUrl) \o BigPagPath(m)
    THEN BigPaginationPage
    ELSE IF \E k \in 1..NumCats : url = Origin(LandingUrl) \o CatPath(k)
    THEN CategoryPage(CHOOSE k \in 1..NumCats : url = Origin(LandingUrl) \o CatPath(k))
    ELSE IF \E k \in 1..NumCats, m \in 1..NumPag : url = Origin(LandingUrl) \o PagPath(k, m)
    THEN PaginationPageAt(CHOOSE km \in (1..NumCats) \X (1..NumPag) :
                              url = Origin(LandingUrl) \o PagPath(km[1], km[2]))
    ELSE EmptyPage

\* messages of the exceptions a fetch may raise
FetchErrors == {"Timeout 30000ms exceeded", "'NoneType' object is not callable"}

(***************************************************************************)
(* scraper.py: scrape_url, one step per page fetch                         *)
(***************************************************************************)
MaxCategories == 30
MaxPaginationDepth == 5

CommonPaths == << <<"/", "p", "r", "o", "d", "u", "c", "t", "s", "/">>, <<"/", "p", "r", "o", "d", "u", "c", "t", "/">>, <<"/", "s", "h", "o", "p", "/">>, <<"/", "c", "o", "l", "l", "e", "c", "t", "i", "o", "n", "/">>, <<"/", "c", "o", "l", "l", "e", "c", "t", "i", "o", "n", "s", "/">>, <<"/", "c", "a", "t", "a", "l", "o", "g", "u", "e", "/">> >>

UnknownBrand == <<"U", "n", "k", "n", "o", "w", "n", " ", "B", "r", "a", "n", "d">>

\* title.split('|')[0].split('-')[0].strip()
BrandName(title) ==
    Strip(SplitFirst(SplitFirst(IF title = << >> THEN UnknownBrand ELSE title, "|"), "-"))

\* the descriptors synthesized when discovery finds nothing
PathDescriptor(url, path_name) == Descriptor(url, path_name, path_name, path_name)

CommonCategories(base_url) ==
    [n \in 1..Len(CommonPaths) |->
        PathDescriptor(urljoin(base_url, CommonPaths[n]), Title(StripSlash(CommonPaths[n])))]

\* lines 572-574: the URL-derived pair replaces the discovered one when both parts are there
PreferUrlLabels(u, cat) ==
    IF u[1] # NoneLabel /\ u[2] # NoneLabel THEN u ELSE << cat.mainCategory, cat.subCategory >>

\* lines 566-574: the labels of a frontier entry
CategoryLabels(cat) == PreferUrlLabels(parse_woocommerce_category_url(cat.url), cat)

\* line 617: the link is a child of the category URL, or shares its last path segment
IsChildOf(full_sub_url, cat_url, parts) ==
    \/ StartsWith(full_sub_url, cat_url)
    \/ (Len(parts) >= 2 /\ Contains(full_sub_url, parts[Len(parts) - 1]))

\* lines 605-624: one sub-category link of a category page
SubcatLink(acc, sub_text, sub_href, full_sub_url, cat_url, main_cat, all_seen) ==
    IF /\ sub_href # << >> /\ sub_text # << >> /\ Len(sub_text) >= MinMenuTextLen
       /\ ~HasExcluded(Lower(sub_text))
       /\ IsChildOf(full_sub_url, cat_url, SplitOn(cat_url, "/"))
       /\ full_sub_url \notin all_seen /\ full_sub_url # cat_url
    THEN Append(acc, Descriptor(full_sub_url, sub_text, main_cat, sub_text))
    ELSE acc

RECURSIVE SubcatLinks(_, _, _, _, _, _, _)
SubcatLinks(links, i, acc, cat_url, main_cat, all_seen, base_url) ==
    IF i > Len(links) THEN acc
    ELSE SubcatLinks(links, i + 1,
                     SubcatLink(acc, Strip(links[i].text), links[i].href,
                                urljoin(base_url, links[i].href), cat_url, main_cat, all_seen),
                     cat_url, main_cat, all_seen, base_url)

\* line 665: the uniqueness key of a record
ProductKey(p) == Lower(p.model \o <<"|">> \o p.productUrl)

RECURSIVE DeduplicateButLast(_, _, _, _)
\* a variant of Deduplicate whose loop stops before the last record
DeduplicateButLast(all_products, i, unique_products, seen_keys) ==
    IF i >= Len(all_products) THEN unique_products
    ELSE IF ProductKey(all_products[i]) \notin seen_keys
            /\ is_valid_product_image(all_products[i].imageUrl)
    THEN DeduplicateButLast(all_products, i + 1, Append(unique_products, all_products[i]),
                            seen_keys \cup {ProductKey(all_products[i])})
    ELSE DeduplicateButLast(all_products, i + 1, unique_products, seen_keys)

RECURSIVE DeduplicateFirstOnly(_, _, _, _)
\* a variant of Deduplicate that records the key of every record it meets, kept or not
DeduplicateFirstOnly(all_products, i, unique_products, seen_keys) ==
    IF i > Len(all_products) THEN unique_products
    ELSE IF ProductKey(all_products[i]) \notin seen_keys
            /\ is_valid_product_image(all_products[i].imageUrl)
    THEN DeduplicateFirstOnly(all_products, i + 1, Append(unique_products, all_products[i]),
                              seen_keys \cup {ProductKey(all_products[i])})
    ELSE DeduplicateFirstOnly(all_products, i + 1, unique_products,
                              seen_keys \cup {ProductKey(all_products[i])})

RECURSIVE Deduplicate(_, _, _, _)
\* lines 662-668: the first record per key, images re-checked
Deduplicate(all_products, i, unique_products, seen_keys) ==
    IF i > Len(all_products) THEN unique_products
    ELSE IF ProductKey(all_products[i]) \notin seen_keys
            /\ is_valid_product_image(all_products[i].imageUrl)
    THEN Deduplicate(all_products, i + 1, Append(unique_products, all_products[i]),
                     seen_keys \cup {ProductKey(all_products[i])})
    ELSE Deduplicate(all_products, i + 1, unique_products, seen_keys)

\* local state of a call of scrape_url that has not started
IdleCrawl ==
    [ pc |-> "idle", url |-> << >>, base_url |-> << >>, brand_name |-> << >>, logo |-> << >>,
      all_products |-> << >>, all_seen |-> {}, categories |-> << >>, frontier |-> << >>,
      i |-> 0, main_cat |-> << >>, sub_cat |-> << >>, pagination |-> << >>, j |-> 0,
      fails |-> 0, fetched |-> << >>,
      result |-> [products |-> << >>, brandInfo |-> [name |-> << >>, logo |-> << >>]],
      error |-> "" ]

StartCrawl(url) == [IdleCrawl EXCEPT !.pc = "landing", !.url = url]

\* lines 672-680: the result dict scrape_url returns
CrawlResult(s) ==
    [ products |-> Deduplicate(s.all_products, 1, << >>, {}),
      brandInfo |-> [name |-> s.brand_name, logo |-> s.logo] ]

\* the labels of the frontier entry the loop is at
WithLabels(s, l) == [s EXCEPT !.main_cat = l[1], !.sub_cat = l[2]]

RECURSIVE Advance(_)
\* control after a page has been dealt with: the next pagination link, the next
\* frontier entry, or the final pass and the return
Advance(s) ==
    IF s.pc = "pagination" /\ s.j > Len(s.pagination)
    THEN Advance([s EXCEPT !.pc = "category", !.i = s.i + 1, !.pagination = << >>, !.j = 0])
    ELSE IF s.pc = "category" /\ s.i > Len(s.frontier)
    THEN [s EXCEPT !.pc = "returned", !.result = CrawlResult(s)]
    ELSE IF s.pc = "category"
    THEN WithLabels(s, CategoryLabels(s.frontier[s.i]))
    ELSE s

\* a record of the log of fetches
Fetch(url, ok) == [url |-> url, ok |-> ok]

\* lines 548-561: the conventional paths when discovery finds nothing
OrCommonPaths(found, base_url) == IF Len(found) = 0 THEN CommonCategories(base_url) ELSE found

\* a variant of LandingDone without the slice of line 564: the loop runs over the whole list
LandingDoneUncapped(s, base_url, brand_name, logo, ex, categories) ==
    [s EXCEPT
        !.pc = "category", !.base_url = base_url, !.brand_name = brand_name, !.logo = logo,
        !.all_products = ex.products, !.all_seen = ex.seen,
        !.categories = categories, !.frontier = categories, !.i = 1,
        !.fetched = Append(s.fetched, Fetch(s.url, TRUE))]

\* lines 533-564: the aggregate, the visited set and the frontier after the landing page
LandingDone(s, base_url, brand_name, logo, ex, categories) ==
    [s EXCEPT
        !.pc = "category", !.base_url = base_url, !.brand_name = brand_name, !.logo = logo,
        !.all_products = ex.products, !.all_seen = ex.seen,
        !.categories = categories, !.frontier = Take(categories, MaxCategories), !.i = 1,
        !.fetched = Append(s.fetched, Fetch(s.url, TRUE))]

\* lines 513-531: the base URL, the brand name and the logo
LandingBrand(s, page, base_url, brand_name) ==
    LandingDone(s, base_url, brand_name,
                IF page.logo # << >> THEN urljoin(s.url, page.logo) ELSE << >>,
                extract_products_from_page(page, base_url, brand_name, <<"H", "o", "m", "e", "p", "a", "g", "e">>, <<"H", "o", "m", "e", "p", "a", "g", "e">>),
                OrCommonPaths(discover_category_pages(page, base_url), base_url))

\* fetcher.fetch(url) returned the landing page
LandingFetched(s, page) == Advance(LandingBrand(s, page, Origin(s.url), BrandName(page.title)))

\* DynamicFetcher(...) or the landing fetch raised: scrape_url re-raises
LandingFailed(s, msg) ==
    [s EXCEPT !.pc = "raised", !.error = msg, !.fails = s.fails + 1,
              !.fetched = Append(s.fetched, Fetch(s.url, FALSE))]

\* the frontier entry's URL is already in all_seen: continue
CategorySkipped(s) == Advance([s EXCEPT !.i = s.i + 1])

\* lines 632-642: the page's sub-categories, products and pagination links are taken in
CategoryDone(s, cat_url, subcats_found, ex, pagination) ==
    [s EXCEPT
        !.pc = "pagination",
        !.all_seen = (s.all_seen \cup {cat_url}) \cup ex.seen,
        !.categories = s.categories \o subcats_found,
        !.all_products = s.all_products \o ex.products,
        !.pagination = Take(pagination, MaxPaginationDepth), !.j = 1,
        !.fetched = Append(s.fetched, Fetch(cat_url, TRUE))]

\* lines 586-634: sub-category discovery runs when the labels are the same
SubcatsFound(s, page, cat_url) ==
    IF s.main_cat = s.sub_cat
    THEN SubcatLinks(page.subcats, 1, << >>, cat_url, s.main_cat, s.all_seen \cup {cat_url}, s.base_url)
    ELSE << >>

\* the category page was fetched
CategoryFetched(s, page) ==
    Advance(CategoryDone(s, s.frontier[s.i].url,
                         SubcatsFound(s, page, s.frontier[s.i].url),
                         extract_products_from_page(page, s.base_url, s.brand_name, s.main_cat, s.sub_cat),
                         find_pagination(page, s.base_url)))

\* a variant of CategoryFailed without the handler of lines 657-659: the exception leaves scrape_url
CategoryFailedRaises(s) ==
    [s EXCEPT !.pc = "raised", !.error = "Timeout 30000ms exceeded", !.fails = s.fails + 1,
              !.fetched = Append(s.fetched, Fetch(s.frontier[s.i].url, FALSE))]

\* the category fetch raised: logged, continue with the next entry
CategoryFailed(s) ==
    Advance([s EXCEPT
        !.all_seen = s.all_seen \cup {s.frontier[s.i].url}, !.i = s.i + 1, !.fails = s.fails + 1,
        !.fetched = Append(s.fetched, Fetch(s.frontier[s.i].url, FALSE))])

\* the pagination link is already in all_seen
PaginationSkipped(s) == Advance([s EXCEPT !.j = s.j + 1])

\* lines 649-651
PaginationDone(s, pg_url, ex) ==
    [s EXCEPT
        !.all_seen = (s.all_seen \cup {pg_url}) \cup ex.seen,
        !.all_products = s.all_products \o ex.products, !.j = s.j + 1,
        !.fetched = Append(s.fetched, Fetch(pg_url, TRUE))]

PaginationFetched(s, page) ==
    Advance(PaginationDone(s, s.pagination[s.j],
                           extract_products_from_page(page, s.base_url, s.brand_name,
                                                      s.main_cat, s.sub_cat)))

\* the pagination fetch raised: logged, continue with the next link
PaginationFailed(s) ==
    Advance([s EXCEPT
        !.all_seen = s.all_seen \cup {s.pagination[s.j]}, !.j = s.j + 1, !.fails = s.fails + 1,
        !.fetched = Append(s.fetched, Fetch(s.pagination[s.j], FALSE))])

\* the URLs clients submit with sync false, and with sync true
Urls == {LandingUrl}
SyncUrls == {LandingUrl, BigUrl}

\* the crawls whose fetches can fail: the server of the second site always answers
FlakyUrls == {LandingUrl}

\* whether one more fetch of the crawl may raise
MayFail(s) == s.fails < MaxFetchFailures /\ s.url \in FlakyUrls

\* lines 510-511 and 682-686: the landing fetch returns the page, or raises
LandingSteps(s) ==
    {[step |-> "fetch_landing", from |-> s, to |-> LandingFetched(s, PageAt(s.url))]}
    \cup {[step |-> "fetch_landing_raises", from |-> s, to |-> LandingFailed(s, msg)] :
             msg \in IF MayFail(s) THEN FetchErrors ELSE {}}

\* lines 576-582 and 657-659: the frontier entry is skipped, fetched, or its fetch raises
CategorySteps(s) ==
    IF s.frontier[s.i].url \in s.all_seen
    THEN {[step |-> "skip_category", from |-> s, to |-> CategorySkipped(s)]}
    ELSE {[step |-> "fetch_category", from |-> s,
           to |-> CategoryFetched(s, PageAt(s.frontier[s.i].url))]}
         \cup {[step |-> "fetch_category_raises", from |-> s, to |-> CategoryFailed(s)] :
                  x \in IF MayFail(s) THEN {1} ELSE {}}

\* lines 644-655: the pagination link is skipped, fetched, or its fetch raises
PaginationSteps(s) ==
    IF s.pagination[s.j] \in s.all_seen
    THEN {[step |-> "skip_pagination", from |-> s, to |-> PaginationSkipped(s)]}
    ELSE {[step |-> "fetch_pagination", from |-> s,
           to |-> PaginationFetched(s, PageAt(s.pagination[s.j]))]}
         \cup {[step |-> "fetch_pagination_raises", from |-> s, to |-> PaginationFailed(s)] :
                  x \in IF MayFail(s) THEN {1} ELSE {}}

\* the steps scrape_url can take from local state s
CrawlSteps(s) ==
    IF s.pc = "landing" THEN LandingSteps(s)
    ELSE IF s.pc = "category" THEN CategorySteps(s)
    ELSE IF s.pc = "pagination" THEN PaginationSteps(s)
    ELSE {}

RECURSIVE CrawlReach(_, _)
\* the local states scrape_url can be in: seen, and those found last
CrawlReach(seen, found) ==
    IF found = {} THEN seen
    ELSE CrawlReach(seen \cup found,
                    {e.to : e \in UNION {CrawlSteps(s) : s \in found}} \ (seen \cup found))

\* the steps of all crawls of the modelled site
CrawlEdges == UNION {CrawlSteps(s) : s \in CrawlReach({}, {StartCrawl(url) : url \in Urls \cup SyncUrls})}

\* the steps of one kind that scrape_url can take from local state s
StepsFrom(s, step) == {e \in CrawlEdges : e.from = s /\ e.step = step}

(***************************************************************************)
(* main.py: the task store, the endpoints and the background worker        *)
(***************************************************************************)
\* ids uuid4 can give to jobs, and ids clients ask about
TaskIds == {"py_universal_1"}
RequestIds == TaskIds \cup {"py_universal_0"}

\* the ids of two jobs submitted one after the other
PairIds == {"py_universal_1", "py_universal_2"}

\* req.name: absent or given
Names == {<< >>}

\* req.url of the modelled requests

\* datetime.utcnow().isoformat()
Now == "utcnow"

HAS_ARCHITONIC == TRUE

\* scrape_endpoint: the scraper a URL is routed to
ScraperType(url) ==
    IF Contains(Lower(url), <<"a", "r", "c", "h", "i", "t", "o", "n", "i", "c", ".", "c", "o", "m">>) /\ HAS_ARCHITONIC THEN "architonic" ELSE "universal"

Terminal == {"completed", "failed", "cancelled"}

VARIABLES
    tasks,      \* main.py tasks: task id -> job record (a dict)
    wk,         \* per task id: the background worker's position and locals
    cr,         \* per task id: the locals of the worker's scrape_url call
    cn,         \* per task id: position of an in-flight DELETE /tasks/{id}
    response,   \* the response the step just taken returned, if it ended a request
    saved,      \* what save_brand_to_storage has written, in order
    hist,       \* bookkeeping for the properties: cancel requests and fetches after them
    sy,         \* the locals of the scrape_url call of a POST /scrape with sync true
    fn          \* a call of one of scraper.py's functions: its name, argument and result

vars == << tasks, wk, cr, cn, response, saved, hist, sy, fn >>

\* dict.update(d)
Update(rec, d) == d @@ rec

\* tasks[task_id][key] = value
SetField(store, id, key, value) == [store EXCEPT ![id] = (key :> value) @@ store[id]]

\* the status of a job that is being worked on
RunningStatus == "processing"

\* a variant of NewTask that starts the record with an empty product list
NewTaskWithProducts(task_id, name, scraper_type) ==
    [ id        |-> task_id,
      status    |-> RunningStatus,
      progress  |-> 10,
      stage     |-> "Initializing " \o scraper_type \o " scraper...",
      brandName |-> IF name # << >> THEN name ELSE <<"D", "e", "t", "e", "c", "t", "i", "n", "g", ".", ".", ".">>,
      startedAt |-> Now,
      products  |-> << >> ]

\* the record scrape_endpoint stores for a new job
NewTask(task_id, name, scraper_type) ==
    [ id        |-> task_id,
      status    |-> RunningStatus,
      progress  |-> 10,
      stage     |-> "Initializing " \o scraper_type \o " scraper...",
      brandName |-> IF name # << >> THEN name ELSE <<"D", "e", "t", "e", "c", "t", "i", "n", "g", ".", ".", ".">>,
      startedAt |-> Now ]

\* uuid4().hex[:8]: an id not in use
NewTaskIds(store) == (TaskIds \cup PairIds) \ DOMAIN store

IdleWorker == [pc |-> "idle", url |-> << >>, name |-> << >>, scraper_type |-> "", completed_data |-> << >>]

NoHist == [cancel |-> "none", crawlCancelled |-> FALSE, fetchesAfter |-> 0, extractsAfter |-> 0]

NoResponse == [op |-> "none", id |-> "", code |-> 0, body |-> << >>]

\* no function call is being looked at
NoCall == [f |-> "none", arg |-> << >>, out |-> << >>, again |-> << >>, pc |-> "none"]

Init ==
    /\ tasks = << >>
    /\ wk = [id \in TaskIds |-> IdleWorker]
    /\ cr = [id \in TaskIds |-> IdleCrawl]
    /\ cn = [id \in TaskIds |-> "idle"]
    /\ response = NoResponse
    /\ saved = << >>
    /\ hist = [id \in TaskIds |-> NoHist]
    /\ sy = IdleCrawl
    /\ fn = NoCall

\* POST /scrape with sync false
scrape_endpoint(task_id, url, name) ==
    /\ task_id \in NewTaskIds(tasks)
    /\ ScraperType(url) = "universal"
    /\ tasks' = (task_id :> NewTask(task_id, name, ScraperType(url))) @@ tasks
    /\ wk' = [wk EXCEPT ![task_id] =
                [IdleWorker EXCEPT !.pc = "queued", !.url = url, !.name = name,
                                   !.scraper_type = ScraperType(url)]]
    /\ response' = [op |-> "scrape", id |-> task_id, code |-> 200, body |-> << >>]
    /\ UNCHANGED << sy, fn, cr, cn, saved, hist >>

\* GET /tasks/{task_id}
get_task(task_id) ==
    /\ response' = IF task_id \notin DOMAIN tasks
                   THEN [op |-> "get", id |-> task_id, code |-> 404, body |-> << >>]
                   ELSE [op |-> "get", id |-> task_id, code |-> 200, body |-> tasks[task_id]]
    /\ UNCHANGED << sy, fn, tasks, wk, cr, cn, saved, hist >>

\* the bookkeeping of a cancel request that writes the status
NoteCancel(h, rec, w, c) ==
    [h EXCEPT
        !.cancel = IF rec.status \notin Terminal THEN "live"
                   ELSE IF h.cancel = "none" THEN "late" ELSE h.cancel,
        !.crawlCancelled = h.crawlCancelled
                           \/ (w.pc = "scrape" /\ c.pc \in {"landing", "category", "pagination"})]

\* a variant of cancel_task without the test of lines 100-101: the write to a
\* missing key raises and the request ends with 500
cancel_task_unchecked(task_id) ==
    IF task_id \notin DOMAIN tasks
    THEN /\ response' = [op |-> "cancel", id |-> task_id, code |-> 500, body |-> << >>]
         /\ UNCHANGED << sy, fn, tasks, wk, cr, cn, saved, hist >>
    ELSE /\ cn[task_id] = "idle"
         /\ tasks' = SetField(tasks, task_id, "status", "cancelled")
         /\ cn' = [cn EXCEPT ![task_id] = "l103"]
         /\ hist' = [hist EXCEPT ![task_id] =
                        NoteCancel(hist[task_id], tasks[task_id], wk[task_id], cr[task_id])]
         /\ response' = NoResponse
         /\ UNCHANGED << sy, fn, wk, cr, saved >>

\* DELETE /tasks/{task_id}, lines 99-102: 404 for an unknown id, else the status write
cancel_task(task_id) ==
    IF task_id \notin DOMAIN tasks
    THEN /\ response' = [op |-> "cancel", id |-> task_id, code |-> 404, body |-> << >>]
         /\ UNCHANGED << sy, fn, tasks, wk, cr, cn, saved, hist >>
    ELSE /\ cn[task_id] = "idle"
         /\ tasks' = SetField(tasks, task_id, "status", "cancelled")
         /\ cn' = [cn EXCEPT ![task_id] = "l103"]
         /\ hist' = [hist EXCEPT ![task_id] =
                        NoteCancel(hist[task_id], tasks[task_id], wk[task_id], cr[task_id])]
         /\ response' = NoResponse
         /\ UNCHANGED << sy, fn, wk, cr, saved >>

\* a variant of cancel_task_stage that also sets the progress back
cancel_task_stage_reset(task_id) ==
    /\ task_id \in DOMAIN tasks
    /\ cn[task_id] = "l103"
    /\ tasks' = SetField(SetField(tasks, task_id, "stage", "Cancelled by user"), task_id, "progress", 0)
    /\ cn' = [cn EXCEPT ![task_id] = "idle"]
    /\ response' = [op |-> "cancel", id |-> task_id, code |-> 200, body |-> << >>]
    /\ UNCHANGED << sy, fn, wk, cr, saved, hist >>

\* DELETE /tasks/{task_id}, lines 103-105: the stage write and the response
cancel_task_stage(task_id) ==
    /\ task_id \in DOMAIN tasks
    /\ cn[task_id] = "l103"
    /\ tasks' = SetField(tasks, task_id, "stage", "Cancelled by user")
    /\ cn' = [cn EXCEPT ![task_id] = "idle"]
    /\ response' = [op |-> "cancel", id |-> task_id, code |-> 200, body |-> << >>]
    /\ UNCHANGED << sy, fn, wk, cr, saved, hist >>

\* run_scrape_task, line 207
worker_status(task_id) ==
    /\ task_id \in DOMAIN tasks
    /\ wk[task_id].pc = "queued"
    /\ tasks' = SetField(tasks, task_id, "status", RunningStatus)
    /\ wk' = [wk EXCEPT ![task_id].pc = "l208"]
    /\ response' = NoResponse
    /\ UNCHANGED << sy, fn, cr, cn, saved, hist >>

\* a variant of worker_progress that writes a value below the one the record starts with
worker_progress_back(task_id) ==
    /\ task_id \in DOMAIN tasks
    /\ wk[task_id].pc = "l208"
    /\ tasks' = SetField(tasks, task_id, "progress", 5)
    /\ wk' = [wk EXCEPT ![task_id].pc = "l209"]
    /\ response' = NoResponse
    /\ UNCHANGED << sy, fn, cr, cn, saved, hist >>

\* run_scrape_task, line 208
worker_progress(task_id) ==
    /\ task_id \in DOMAIN tasks
    /\ wk[task_id].pc = "l208"
    /\ tasks' = SetField(tasks, task_id, "progress", 20)
    /\ wk' = [wk EXCEPT ![task_id].pc = "l209"]
    /\ response' = NoResponse
    /\ UNCHANGED << sy, fn, cr, cn, saved, hist >>

\* run_scrape_task, line 209
worker_stage(task_id) ==
    /\ task_id \in DOMAIN tasks
    /\ wk[task_id].pc = "l209"
    /\ tasks' = SetField(tasks, task_id, "stage",
                         "Running " \o wk[task_id].scraper_type \o " scraper...")
    /\ wk' = [wk EXCEPT ![task_id].pc = "l212"]
    /\ response' = NoResponse
    /\ UNCHANGED << sy, fn, cr, cn, saved, hist >>

\* a variant of IsCancelled that also holds for a job that is being worked on
CancelledOrProcessing(rec) == rec.status \in {"cancelled", RunningStatus}

\* the test of both cancellation checks
IsCancelled(rec) == rec.status = "cancelled"

\* run_scrape_task, lines 212-219: the first cancellation check, then the call of scrape_url
worker_check_start(task_id) ==
    /\ task_id \in DOMAIN tasks
    /\ wk[task_id].pc = "l212"
    /\ IF IsCancelled(tasks[task_id])
       THEN /\ wk' = [wk EXCEPT ![task_id].pc = "done"]
            /\ cr' = cr
       ELSE /\ wk' = [wk EXCEPT ![task_id].pc = "scrape"]
            /\ cr' = [cr EXCEPT ![task_id] = StartCrawl(wk[task_id].url)]
    /\ response' = NoResponse
    /\ UNCHANGED << sy, fn, tasks, cn, saved, hist >>

\* the bookkeeping of one page fetch of a crawl
NoteFetch(h, extracted) ==
    IF h.crawlCancelled
    THEN [h EXCEPT
            !.fetchesAfter = IF h.fetchesAfter < MaxCount THEN h.fetchesAfter + 1 ELSE h.fetchesAfter,
            !.extractsAfter = IF extracted /\ h.fetchesAfter >= 1 /\ h.extractsAfter < MaxCount
                              THEN h.extractsAfter + 1 ELSE h.extractsAfter]
    ELSE h

\* scrape_url, lines 510-561: the landing page is fetched
fetch_landing(task_id) ==
    /\ wk[task_id].pc = "scrape"
    /\ \E e \in StepsFrom(cr[task_id], "fetch_landing") : cr' = [cr EXCEPT ![task_id] = e.to]
    /\ hist' = [hist EXCEPT ![task_id] = NoteFetch(hist[task_id], TRUE)]
    /\ response' = NoResponse
    /\ UNCHANGED << sy, fn, tasks, wk, cn, saved >>

\* scrape_url, lines 510-511 and 682-686: the fetcher or the landing fetch raises
fetch_landing_raises(task_id) ==
    /\ wk[task_id].pc = "scrape"
    /\ \E e \in StepsFrom(cr[task_id], "fetch_landing_raises") : cr' = [cr EXCEPT ![task_id] = e.to]
    /\ hist' = [hist EXCEPT ![task_id] = NoteFetch(hist[task_id], FALSE)]
    /\ response' = NoResponse
    /\ UNCHANGED << sy, fn, tasks, wk, cn, saved >>

\* scrape_url, lines 576-577: the frontier entry is in all_seen
skip_category(task_id) ==
    /\ wk[task_id].pc = "scrape"
    /\ \E e \in StepsFrom(cr[task_id], "skip_category") : cr' = [cr EXCEPT ![task_id] = e.to]
    /\ response' = NoResponse
    /\ UNCHANGED << sy, fn, tasks, wk, cn, saved, hist >>

\* a variant of fetch_category in which the crawl's locals are module-level names:
\* every crawl that is running gets the new values
fetch_category_shared(task_id) ==
    /\ wk[task_id].pc = "scrape"
    /\ \E e \in StepsFrom(cr[task_id], "fetch_category") :
          cr' = [id \in DOMAIN cr |-> IF id = task_id \/ cr[id].pc \in {"category", "pagination"}
                                       THEN e.to ELSE cr[id]]
    /\ hist' = [hist EXCEPT ![task_id] = NoteFetch(hist[task_id], TRUE)]
    /\ response' = NoResponse
    /\ UNCHANGED << sy, fn, tasks, wk, cn, saved >>

\* scrape_url, lines 578-642: the category page is fetched
fetch_category(task_id) ==
    /\ wk[task_id].pc = "scrape"
    /\ \E e \in StepsFrom(cr[task_id], "fetch_category") : cr' = [cr EXCEPT ![task_id] = e.to]
    /\ hist' = [hist EXCEPT ![task_id] = NoteFetch(hist[task_id], TRUE)]
    /\ response' = NoResponse
    /\ UNCHANGED << sy, fn, tasks, wk, cn, saved >>

\* scrape_url, lines 578-582 and 657-659: the category fetch raises
fetch_category_raises(task_id) ==
    /\ wk[task_id].pc = "scrape"
    /\ \E e \in StepsFrom(cr[task_id], "fetch_category_raises") : cr' = [cr EXCEPT ![task_id] = e.to]
    /\ hist' = [hist EXCEPT ![task_id] = NoteFetch(hist[task_id], FALSE)]
    /\ response' = NoResponse
    /\ UNCHANGED << sy, fn, tasks, wk, cn, saved >>

\* scrape_url, line 644: the pagination link is in all_seen
skip_pagination(task_id) ==
    /\ wk[task_id].pc = "scrape"
    /\ \E e \in StepsFrom(cr[task_id], "skip_pagination") : cr' = [cr EXCEPT ![task_id] = e.to]
    /\ response' = NoResponse
    /\ UNCHANGED << sy, fn, tasks, wk, cn, saved, hist >>

\* scrape_url, lines 644-652: the pagination page is fetched
fetch_pagination(task_id) ==
    /\ wk[task_id].pc = "scrape"
    /\ \E e \in StepsFrom(cr[task_id], "fetch_pagination") : cr' = [cr EXCEPT ![task_id] = e.to]
    /\ hist' = [hist EXCEPT ![task_id] = NoteFetch(hist[task_id], TRUE)]
    /\ response' = NoResponse
    /\ UNCHANGED << sy, fn, tasks, wk, cn, saved >>

\* scrape_url, lines 644-648 and 653-655: the pagination fetch raises
fetch_pagination_raises(task_id) ==
    /\ wk[task_id].pc = "scrape"
    /\ \E e \in StepsFrom(cr[task_id], "fetch_pagination_raises") : cr' = [cr EXCEPT ![task_id] = e.to]
    /\ hist' = [hist EXCEPT ![task_id] = NoteFetch(hist[task_id], FALSE)]
    /\ response' = NoResponse
    /\ UNCHANGED << sy, fn, tasks, wk, cn, saved >>

\* the dict run_scrape_task builds from the crawl's result
CompletedData(task_id, url, result) ==
    [ id           |-> task_id,
      status       |-> "completed",
      progress     |-> 100,
      stage        |-> "Complete!",
      products     |-> result.products,
      brandInfo    |-> result.brandInfo,
      productCount |-> Len(result.products),
      completedAt  |-> Now,
      sourceUrl    |-> url ]

\* a variant of FailedData that drops the exception's message
FailedDataNoMessage(msg) == [status |-> "failed", error |-> "Scrape failed", failedAt |-> Now]

\* the dict of the failure handler
FailedData(msg) == [status |-> "failed", error |-> msg, failedAt |-> Now]

\* run_scrape_task, lines 222-238: scrape_url returned; the second cancellation check
worker_check_result(task_id) ==
    /\ wk[task_id].pc = "scrape"
    /\ cr[task_id].pc = "returned"
    /\ IF IsCancelled(tasks[task_id])
       THEN wk' = [wk EXCEPT ![task_id].pc = "done"]
       ELSE wk' = [wk EXCEPT ![task_id].pc = "l241",
                             ![task_id].completed_data =
                                 CompletedData(task_id, wk[task_id].url, cr[task_id].result)]
    /\ response' = NoResponse
    /\ UNCHANGED << sy, fn, tasks, cr, cn, saved, hist >>

\* a variant of worker_complete that goes on to the save without the update of line 241
worker_complete_unwritten(task_id) ==
    /\ wk[task_id].pc = "l241"
    /\ wk' = [wk EXCEPT ![task_id].pc = "l245"]
    /\ response' = NoResponse
    /\ UNCHANGED << sy, fn, tasks, cr, cn, saved, hist >>

\* run_scrape_task, line 241
worker_complete(task_id) ==
    /\ wk[task_id].pc = "l241"
    /\ tasks' = [tasks EXCEPT ![task_id] = Update(tasks[task_id], wk[task_id].completed_data)]
    /\ wk' = [wk EXCEPT ![task_id].pc = "l245"]
    /\ response' = NoResponse
    /\ UNCHANGED << sy, fn, cr, cn, saved, hist >>

UnknownBrandKey == <<"u", "n", "k", "n", "o", "w", "n", "_", "b", "r", "a", "n", "d">>

\* save_brand_to_storage: the sanitized brand name of the file name
SafeName(brand_name) ==
    LET kept == Lower(SelectSeq(brand_name, LAMBDA x : IsAlnum(x) \/ x = "_"))
    IN  IF kept = << >> THEN UnknownBrandKey ELSE kept

\* run_scrape_task, line 244
BrandNameToSave(brand_info, name) ==
    IF brand_info.name # << >> THEN brand_info.name
    ELSE IF name # << >> THEN name
    ELSE <<"U", "n", "k", "n", "o", "w", "n">>

\* run_scrape_task, lines 244-247: the record is saved, or the write fails and is logged
worker_save(task_id) ==
    /\ wk[task_id].pc = "l245"
    /\ \E written \in BOOLEAN :
          saved' = IF written
                   THEN Append(saved,
                               [ name |-> SafeName(BrandNameToSave(wk[task_id].completed_data.brandInfo,
                                                                   wk[task_id].name)),
                                 data |-> wk[task_id].completed_data ])
                   ELSE saved
    /\ wk' = [wk EXCEPT ![task_id].pc = "done"]
    /\ response' = NoResponse
    /\ UNCHANGED << sy, fn, tasks, cr, cn, hist >>

\* run_scrape_task, lines 249-255: scrape_url raised
worker_failed(task_id) ==
    /\ wk[task_id].pc = "scrape"
    /\ cr[task_id].pc = "raised"
    /\ tasks' = [tasks EXCEPT ![task_id] = Update(tasks[task_id], FailedData(cr[task_id].error))]
    /\ wk' = [wk EXCEPT ![task_id].pc = "done"]
    /\ response' = NoResponse
    /\ UNCHANGED << sy, fn, cr, cn, saved, hist >>

\* the steps of the background unit of one job
Worker(task_id) ==
    \/ worker_status(task_id)
    \/ worker_progress(task_id)
    \/ worker_stage(task_id)
    \/ worker_check_start(task_id)
    \/ fetch_landing(task_id)
    \/ fetch_landing_raises(task_id)
    \/ skip_category(task_id)
    \/ fetch_category(task_id)
    \/ fetch_category_raises(task_id)
    \/ skip_pagination(task_id)
    \/ fetch_pagination(task_id)
    \/ fetch_pagination_raises(task_id)
    \/ worker_check_result(task_id)
    \/ worker_complete(task_id)
    \/ worker_save(task_id)
    \/ worker_failed(task_id)

Next ==
    \/ \E task_id \in TaskIds, url \in Urls, name \in Names : scrape_endpoint(task_id, url, name)
    \/ \E task_id \in RequestIds : get_task(task_id)
    \/ \E task_id \in RequestIds : cancel_task(task_id)
    \/ \E task_id \in TaskIds : cancel_task_stage(task_id)
    \/ \E task_id \in TaskIds : Worker(task_id)

Spec == Init /\ [][Next]_vars

\* the background units and in-flight requests are scheduled and every fetch returns or raises
FairSpec == Spec /\ \A task_id \in TaskIds : WF_vars(Worker(task_id))

(***************************************************************************)
(* main.py: scrape_endpoint with sync true, lines 267-282                  *)
(* The crawl runs in the executor while the event loop serves other        *)
(* requests; sy holds the locals of its scrape_url call.                   *)
(***************************************************************************)
Crawling == {"landing", "category", "pagination"}

\* lines 268-273: the request is routed and scrape_url is called
scrape_endpoint_sync(url) ==
    /\ sy.pc = "idle"
    /\ ScraperType(url) = "universal"
    /\ sy' = StartCrawl(url)
    /\ response' = NoResponse
    /\ UNCHANGED << fn, tasks, wk, cr, cn, saved, hist >>

\* scrape_url in the executor: one page is fetched, skipped, or its fetch raises
sync_crawl_step ==
    /\ sy.pc \in Crawling
    /\ \E e \in CrawlEdges : e.from = sy /\ sy' = e.to
    /\ response' = NoResponse
    /\ UNCHANGED << fn, tasks, wk, cr, cn, saved, hist >>

\* lines 274-279: the response body of a crawl that returned
SyncBody(data) ==
    [ success      |-> TRUE,
      products     |-> data.products,
      brandInfo    |-> data.brandInfo,
      productCount |-> Len(data.products) ]

\* a variant of sync_return that saves the result the way run_scrape_task does
sync_return_saved ==
    /\ sy.pc = "returned"
    /\ response' = [op |-> "scrape_sync", id |-> "", code |-> 200, body |-> SyncBody(sy.result)]
    /\ saved' = Append(saved, [name |-> SafeName(sy.result.brandInfo.name), data |-> SyncBody(sy.result)])
    /\ sy' = IdleCrawl
    /\ UNCHANGED << fn, tasks, wk, cr, cn, hist >>

\* lines 274-279: scrape_url returned
sync_return ==
    /\ sy.pc = "returned"
    /\ response' = [op |-> "scrape_sync", id |-> "", code |-> 200, body |-> SyncBody(sy.result)]
    /\ sy' = IdleCrawl
    /\ UNCHANGED << fn, tasks, wk, cr, cn, saved, hist >>

\* lines 280-282: scrape_url raised
sync_raise ==
    /\ sy.pc = "raised"
    /\ response' = [op |-> "scrape_sync", id |-> "", code |-> 500, body |-> [detail |-> sy.error]]
    /\ sy' = IdleCrawl
    /\ UNCHANGED << fn, tasks, wk, cr, cn, saved, hist >>

\* the steps of a POST /scrape with sync true
SyncScrape ==
    \/ \E url \in SyncUrls : scrape_endpoint_sync(url)
    \/ sync_crawl_step
    \/ sync_return
    \/ sync_raise

SyncNext ==
    \/ SyncScrape
    \/ \E task_id \in TaskIds, url \in Urls, name \in Names : scrape_endpoint(task_id, url, name)
    \/ \E task_id \in RequestIds : get_task(task_id)
    \/ \E task_id \in RequestIds : cancel_task(task_id)
    \/ \E task_id \in TaskIds : cancel_task_stage(task_id)

\* requests with sync true, served next to the other endpoints while no job is worked on
SyncSpec == Init /\ [][SyncNext]_vars

(***************************************************************************)
(* scraper.py: its functions called on their own. fn holds one call: the   *)
(* function's name, its argument and, once it has returned, its result.    *)
(***************************************************************************)
Call(f, arg) == [NoCall EXCEPT !.f = f, !.arg = arg, !.pc = "called"]

\* records the extractor builds: the same product with a photograph, with an icon
\* (structured data, line 262), in capitals, without an image (an ItemList entry,
\* line 293), and another product
DedupPool ==
    { create_product(<<"L", "a", "m", "p">>, <<"h", "t", "t", "p", ":", "/", "/", "s", "/", "i", "/", "l", "a", "m", "p", ".", "j", "p", "g">>, <<"h", "t", "t", "p", ":", "/", "/", "s", "/", "p", "/", "l", "a", "m", "p">>, <<"A", "c", "m", "e">>, <<"C", "a", "t", "1">>, <<"C", "a", "t", "1">>),
      create_product(<<"L", "a", "m", "p">>, <<"h", "t", "t", "p", ":", "/", "/", "s", "/", "i", "/", "l", "a", "m", "p", "-", "i", "c", "o", "n", ".", "p", "n", "g">>, <<"h", "t", "t", "p", ":", "/", "/", "s", "/", "p", "/", "l", "a", "m", "p">>, <<"A", "c", "m", "e">>, <<"C", "a", "t", "2">>, <<"C", "a", "t", "2">>),
      create_product(<<"L", "A", "M", "P">>, <<"h", "t", "t", "p", ":", "/", "/", "s", "/", "i", "/", "l", "a", "m", "p", "-", "2", ".", "j", "p", "g">>, <<"h", "t", "t", "p", ":", "/", "/", "s", "/", "p", "/", "L", "a", "m", "p">>, <<"A", "c", "m", "e">>, <<"C", "a", "t", "3">>, <<"C", "a", "t", "3">>),
      create_product(<<"L", "a", "m", "p">>, << >>, <<"h", "t", "t", "p", ":", "/", "/", "s", "/", "p", "/", "l", "a", "m", "p">>, <<"A", "c", "m", "e">>, <<"C", "a", "t", "4">>, <<"C", "a", "t", "4">>),
      create_product(<<"S", "o", "f", "a">>, <<"h", "t", "t", "p", ":", "/", "/", "s", "/", "i", "/", "s", "o", "f", "a", ".", "j", "p", "g">>, <<"h", "t", "t", "p", ":", "/", "/", "s", "/", "p", "/", "s", "o", "f", "a">>, <<"A", "c", "m", "e">>, <<"C", "a", "t", "1">>, <<"C", "a", "t", "1">>) }

\* the aggregate lists of up to MaxAgg records
Aggregates == UNION {[1..n -> DedupPool] : n \in 0..MaxAgg}

\* the state in which one call has been made and nothing else has happened
CalledWith(calls) ==
    /\ fn \in calls
    /\ tasks = << >>
    /\ wk = [id \in TaskIds |-> IdleWorker]
    /\ cr = [id \in TaskIds |-> IdleCrawl]
    /\ cn = [id \in TaskIds |-> "idle"]
    /\ response = NoResponse
    /\ saved = << >>
    /\ hist = [id \in TaskIds |-> NoHist]
    /\ sy = IdleCrawl

\* the call returns
Returns(out) ==
    /\ fn' = [fn EXCEPT !.out = out, !.pc = "returned"]
    /\ UNCHANGED << tasks, wk, cr, cn, response, saved, hist, sy >>

\* scrape_url, lines 661-668: the final pass over an aggregate list
call_deduplicate ==
    /\ fn.f = "deduplicate" /\ fn.pc = "called"
    /\ Returns(Deduplicate(fn.arg, 1, << >>, {}))

\* the final pass is run again on the list it has returned
call_deduplicate_again ==
    /\ fn.f = "deduplicate" /\ fn.pc = "returned"
    /\ fn' = [fn EXCEPT !.again = Deduplicate(fn.out, 1, << >>, {}), !.pc = "again"]
    /\ UNCHANGED << tasks, wk, cr, cn, response, saved, hist, sy >>

\* str.upper()
Upper(s) == [i \in 1..Len(s) |-> UpperChar(s[i])]

\* image URLs that are empty or shorter than the minimum length
ShortUrls == { << >>, <<"a", ".", "j", "p", "g">>, <<"l", "o", "g", "o", ".", "p", "n", "g">>, <<"/", "i", "/", "a", "b", ".", "j", "p", "g">> }

\* image URLs of the minimum length or longer that hold a token of the block list,
\* in lower case, in capitals, or capitalised
BlockedUrls ==
    UNION {{ (<<"h", "t", "t", "p", ":", "/", "/", "s", "/", "i", "/">> \o term) \o <<".", "p", "n", "g">>,
             (<<"h", "t", "t", "p", ":", "/", "/", "s", "/", "i", "/">> \o Upper(term)) \o <<".", "P", "N", "G">>,
             (<<"h", "t", "t", "p", ":", "/", "/", "s", "/", "i", "/", "x", "-">> \o Title(term)) \o <<"-", "1", ".", "j", "p", "g">> } : term \in IMAGE_EXCLUDE}

\* image URLs of the minimum length or longer that hold no token of the block list
PlainUrls ==
    { <<"/", "i", "/", "a", "b", "c", ".", "j", "p", "g">>, <<"h", "t", "t", "p", ":", "/", "/", "s", "/", "i", "/", "d", "e", "s", "k", "-", "1", ".", "j", "p", "g">>, <<"H", "T", "T", "P", ":", "/", "/", "S", "/", "I", "/", "D", "E", "S", "K", ".", "J", "P", "G">>, <<"h", "t", "t", "p", ":", "/", "/", "s", "/", "i", "/", "l", "o", "g", "-", "o", ".", "p", "n", "g">>,
      <<"h", "t", "t", "p", ":", "/", "/", "s", "/", "i", "/", "i", "c", "o", ".", "p", "n", "g">> }

\* is_valid_product_image, lines 24-29
call_is_valid_product_image ==
    /\ fn.f = "is_valid_product_image" /\ fn.pc = "called"
    /\ Returns(is_valid_product_image(fn.arg))

\* the label pairs discovery gives a descriptor: a menu item of its own, and a submenu link
MenuLabels == { << <<"S", "e", "a", "t", "i", "n", "g">>, <<"S", "e", "a", "t", "i", "n", "g">> >>, << <<"S", "e", "a", "t", "i", "n", "g">>, <<"O", "f", "f", "i", "c", "e">> >> }

CatsAt(urls) == {Descriptor(url, l[2], l[1], l[2]) : url \in urls, l \in MenuLabels}

\* descriptors whose URL path has a main and a sub segment that differ
TwoSegmentCats == CatsAt({ <<"h", "t", "t", "p", ":", "/", "/", "s", "/", "p", "r", "o", "d", "u", "c", "t", "-", "c", "a", "t", "e", "g", "o", "r", "y", "/", "c", "h", "a", "i", "r", "s", "/", "e", "x", "e", "c", "u", "t", "i", "v", "e", "-", "c", "h", "a", "i", "r", "s", "/">>, <<"h", "t", "t", "p", ":", "/", "/", "s", "/", "c", "h", "a", "i", "r", "s", "/", "s", "t", "o", "o", "l", "/">> })

\* descriptors whose URL path has one segment
SingleSegmentCats == CatsAt({ <<"h", "t", "t", "p", ":", "/", "/", "s", "/", "c", "h", "a", "i", "r", "s", "/">> })

\* descriptors whose URL path has the same segment twice
EqualSegmentCats == CatsAt({ <<"h", "t", "t", "p", ":", "/", "/", "s", "/", "c", "h", "a", "i", "r", "s", "/", "c", "h", "a", "i", "r", "s", "/">> })

\* descriptors whose URL path is empty
EmptyPathCats == CatsAt({ <<"h", "t", "t", "p", ":", "/", "/", "s", "/">>, <<"h", "t", "t", "p", ":", "/", "/", "s">> })

\* scrape_url, lines 565-574: the labels of a frontier entry
call_category_labels ==
    /\ fn.f = "category_labels" /\ fn.pc = "called"
    /\ Returns(CategoryLabels(fn.arg))

\* a block element with a heading, a link and an image, as the generic scan sees it
Block(heading, img, href) == [heading |-> heading, link_text |-> << >>, img_src |-> img, href |-> href]

\* a page outside the modelled sites: containers with and without a title, one product in
\* generic markup, one block with an icon, and an ItemList with and without images
MixedPage ==
    [ EmptyPage EXCEPT
        !.woo = << Woo(<<"B", "e", "d">>, <<"/", "i", "/", "b", "e", "d", "-", "1", ".", "j", "p", "g">>, <<"/", "p", "/", "b", "e", "d">>), Woo(<< >>, <<"/", "i", "/", "c", "o", "t", "-", "1", ".", "j", "p", "g">>, <<"/", "p", "/", "c", "o", "t">>) >>,
        !.generic = << Block(<<"T", "a", "b", "l", "e">>, <<"/", "i", "/", "t", "a", "b", "l", "e", "-", "1", ".", "j", "p", "g">>, <<"/", "p", "/", "t", "a", "b", "l", "e">>),
                       Block(<<"A", "r", "r", "o", "w">>, <<"/", "i", "/", "a", "r", "r", "o", "w", ".", "p", "n", "g">>, <<"/", "p", "/", "n", "e", "x", "t">>) >>,
        !.jsonld = << [type |-> "ItemList", name |-> << >>, image |-> << >>, url |-> << >>,
                       elements |-> << [name |-> <<"R", "u", "g">>, url |-> <<"/", "p", "/", "r", "u", "g">>, image |-> <<"/", "i", "/", "r", "u", "g", ".", "j", "p", "g">>],
                                       [name |-> <<"M", "a", "t">>, url |-> <<"/", "p", "/", "m", "a", "t">>, image |-> << >>] >>] >> ]

\* a reference on which urljoin raises
BadRef == <<"h", "t", "t", "p", ":", "/", "/", "[", ":", ":", "1", "/", "x">>

\* the product containers of a page: n cards, with one whose link cannot be resolved
\* after the first when broken
Cards(n, broken) ==
    [k \in 1..(IF n > 0 THEN 1 ELSE 0) |->
        Woo(<<"B", "e", "d">> \o Digit(k), (<<"/", "i", "/", "b", "e", "d", "-">> \o Digit(k)) \o <<".", "j", "p", "g">>, <<"/", "p", "/", "b", "e", "d">> \o Digit(k))]
    \o (IF broken THEN << Woo(<<"C", "o", "t">>, <<"/", "i", "/", "c", "o", "t", "-", "1", ".", "j", "p", "g">>, BadRef) >> ELSE << >>)
    \o [k \in 1..(IF n > 0 THEN n - 1 ELSE 0) |->
          Woo(<<"B", "e", "d">> \o Digit(k + 1), (<<"/", "i", "/", "b", "e", "d", "-">> \o Digit(k + 1)) \o <<".", "j", "p", "g">>, <<"/", "p", "/", "b", "e", "d">> \o Digit(k + 1))]

\* a structured-data block that is not JSON
Unparsable == [type |-> "Unparsable", name |-> << >>, image |-> << >>, url |-> << >>, elements |-> << >>]

\* a page with n product containers, one block in generic markup, an ItemList and a
\* Product node; when broken, each of the three also holds an element that makes the
\* code raise, placed before another element
StrategyPage(n, broken) ==
    [ EmptyPage EXCEPT
        !.woo = Cards(n, broken),
        !.generic = (IF broken THEN << Block(<<"S", "o", "f", "a">>, BadRef \o <<".", "j", "p", "g">>, <<"/", "p", "/", "s", "o", "f", "a">>) >> ELSE << >>)
                    \o << Block(<<"T", "a", "b", "l", "e">>, <<"/", "i", "/", "t", "a", "b", "l", "e", "-", "1", ".", "j", "p", "g">>, <<"/", "p", "/", "t", "a", "b", "l", "e">>) >>,
        !.jsonld = (IF broken THEN << Unparsable >> ELSE << >>)
                   \o << [type |-> "ItemList", name |-> << >>, image |-> << >>, url |-> << >>,
                          elements |-> << [name |-> <<"R", "u", "g">>, url |-> <<"/", "p", "/", "r", "u", "g">>, image |-> <<"/", "i", "/", "r", "u", "g", ".", "j", "p", "g">>] >>
                                       \o (IF broken
                                           THEN << [name |-> <<"M", "a", "t">>, url |-> BadRef, image |-> << >>],
                                                   [name |-> <<"P", "a", "d">>, url |-> <<"/", "p", "/", "p", "a", "d">>, image |-> << >>] >>
                                           ELSE << >>)],
                         JsonLdProduct(<<"V", "a", "s", "e">>, <<"/", "i", "/", "v", "a", "s", "e", ".", "j", "p", "g">>, <<"/", "p", "/", "v", "a", "s", "e">>) >> ]

\* a page whose structured data lacks fields: a Product node without a URL, one without
\* a name, and an ItemList whose first entry has no URL and whose second has no name
SparsePage ==
    [ EmptyPage EXCEPT
        !.jsonld = << JsonLdProduct(<<"V", "a", "s", "e">>, <<"/", "i", "/", "v", "a", "s", "e", ".", "j", "p", "g">>, << >>),
                      JsonLdProduct(<< >>, <<"/", "i", "/", "j", "a", "r", ".", "j", "p", "g">>, <<"/", "p", "/", "j", "a", "r">>),
                      [type |-> "ItemList", name |-> << >>, image |-> << >>, url |-> << >>,
                       elements |-> << [name |-> <<"R", "u", "g">>, url |-> << >>, image |-> <<"/", "i", "/", "r", "u", "g", ".", "j", "p", "g">>],
                                       [name |-> << >>, url |-> <<"/", "p", "/", "m", "a", "t">>, image |-> <<"/", "i", "/", "m", "a", "t", ".", "j", "p", "g">>],
                                       [name |-> <<"P", "a", "d">>, url |-> <<"/", "p", "/", "p", "a", "d">>, image |-> <<"/", "i", "/", "p", "a", "d", ".", "j", "p", "g">>] >>] >> ]

StrategyPages == {StrategyPage(n, broken) : n \in 0..MaxCards, broken \in BOOLEAN}

\* the pages the extractor is called on
ExtractPages ==
    {LandingPage, PaginationPage(1, 1), BigCategoryPage(1), BigCategoryPage(2), MixedPage}
    \cup (StrategyPages \cup {SparsePage})
    \cup {CategoryPage(k) : k \in 1..NumCats}

\* extract_products_from_page, lines 72-308, on a page of the first site
call_extract_products_from_page ==
    /\ fn.f = "extract_products_from_page" /\ fn.pc = "called"
    /\ Returns(extract_products_from_page(fn.arg, Origin(LandingUrl), <<"A", "c", "m", "e">>, <<"M", "a", "i", "n">>, <<"S", "u", "b">>).products)

\* a top-level menu item without a submenu, and a link
Item(text, href) == [text |-> text, href |-> href, subs |-> << >>]
Link(text, href) == [text |-> text, href |-> href]

\* a page whose first menu selector matches nothing, whose second matches items (one
\* naming the base URL, two naming the same page, one with a submenu), whose third
\* matches another item, and whose links also name a shop page
MenuPage ==
    [ EmptyPage EXCEPT
        !.menus = << << >>,
                     << Item(<<"H", "o", "m", "e">>, <<"h", "t", "t", "p", ":", "/", "/", "s">>), Item(<<"C", "h", "a", "i", "r", "s">>, <<"/", "c", "h", "a", "i", "r", "s", "/">>), Item(<<"C", "h", "a", "i", "r", "s">>, <<"/", "c", "h", "a", "i", "r", "s", "/">>),
                        [text |-> <<"S", "e", "a", "t", "i", "n", "g">>, href |-> <<"/", "s", "e", "a", "t", "i", "n", "g", "/">>,
                         subs |-> << Link(<<"O", "f", "f", "i", "c", "e">>, <<"/", "s", "e", "a", "t", "i", "n", "g", "/", "o", "f", "f", "i", "c", "e", "/">>), Link(<<"L", "o", "g", "i", "n">>, <<"/", "l", "o", "g", "i", "n", "/">>) >>] >>,
                     << Item(<<"D", "e", "s", "k", "s">>, <<"/", "d", "e", "s", "k", "s", "/">>) >> >>,
        !.anchors = << Link(<<"C", "h", "a", "i", "r", "s">>, <<"/", "c", "h", "a", "i", "r", "s", "/">>), Link(<<"S", "h", "o", "p", " ", "t", "a", "b", "l", "e", "s">>, <<"/", "s", "h", "o", "p", "/", "t", "a", "b", "l", "e", "s", "/">>) >> ]

\* a page whose menu selectors match only items that are turned down, and whose links
\* name a shop page twice, the base URL, another host, a blog and a page without keyword
FlatPage ==
    [ EmptyPage EXCEPT
        !.menus = << << Item(<<"C", "o", "n", "t", "a", "c", "t">>, <<"/", "c", "o", "n", "t", "a", "c", "t", "/">>) >>, << Item(<<"C", "h", "a", "i", "r", "s">>, <<"#">>) >> >>,
        !.anchors = << Link(<<"S", "h", "o", "p", " ", "t", "a", "b", "l", "e", "s">>, <<"/", "s", "h", "o", "p", "/", "t", "a", "b", "l", "e", "s", "/">>), Link(<<"A", "l", "l", " ", "t", "a", "b", "l", "e", "s">>, <<"/", "s", "h", "o", "p", "/", "t", "a", "b", "l", "e", "s", "/">>),
                       Link(<<"P", "r", "o", "d", "u", "c", "t", "s">>, <<"h", "t", "t", "p", ":", "/", "/", "s">>), Link(<<"S", "h", "o", "p">>, <<"h", "t", "t", "p", ":", "/", "/", "x", "/", "s", "h", "o", "p", "/">>),
                       Link(<<"C", "h", "a", "i", "r", " ", "b", "l", "o", "g">>, <<"/", "b", "l", "o", "g", "/", "c", "h", "a", "i", "r", "/">>), Link(<<"A", "b", "o", "u", "t", " ", "u", "s">>, <<"/", "a", "b", "o", "u", "t", "/">>),
                       Link(<<"D", "e", "s", "k", " ", "r", "a", "n", "g", "e">>, <<"/", "d", "e", "s", "k", "s", "/">>) >> ]

\* a page without menus whose only link names no product page
BarePage == [ EmptyPage EXCEPT !.anchors = << Link(<<"A", "b", "o", "u", "t", " ", "u", "s">>, <<"/", "a", "b", "o", "u", "t", "/">>) >> ]

\* the landing pages discovery is called on
DiscoverPages == {LandingPage, BigLandingPage, MenuPage, FlatPage, BarePage}

\* scrape_url, lines 543-561: discovery and the conventional paths
call_discover_categories ==
    /\ fn.f = "discover_categories" /\ fn.pc = "called"
    /\ Returns(OrCommonPaths(discover_category_pages(fn.arg, Origin(LandingUrl)), Origin(LandingUrl)))

\* one call of a function on one of the modelled arguments
FnInit ==
    \/ CalledWith({Call("deduplicate", a) : a \in Aggregates})
    \/ CalledWith({Call("is_valid_product_image", url) : url \in (ShortUrls \cup BlockedUrls) \cup PlainUrls})
    \/ CalledWith({Call("category_labels", cat) :
                      cat \in (TwoSegmentCats \cup SingleSegmentCats) \cup (EqualSegmentCats \cup EmptyPathCats)})
    \/ CalledWith({Call("extract_products_from_page", page) : page \in ExtractPages})
    \/ CalledWith({Call("discover_categories", page) : page \in DiscoverPages})

FnNext ==
    \/ call_deduplicate
    \/ call_deduplicate_again
    \/ call_is_valid_product_image
    \/ call_category_labels
    \/ call_extract_products_from_page
    \/ call_discover_categories

\* scraper.py's functions called once each on one of the modelled arguments
FnSpec == FnInit /\ [][FnNext]_vars

(***************************************************************************)
(* main.py: two jobs whose background units run in the thread pool at the  *)
(* same time, on a site whose fetches do not fail; clients ask to cancel   *)
(* the first of them                                                       *)
(***************************************************************************)
PairInit ==
    /\ tasks = << >>
    /\ wk = [id \in PairIds |-> IdleWorker]
    /\ cr = [id \in PairIds |-> IdleCrawl]
    /\ cn = [id \in PairIds |-> "idle"]
    /\ response = NoResponse
    /\ saved = << >>
    /\ hist = [id \in PairIds |-> NoHist]
    /\ sy = IdleCrawl
    /\ fn = NoCall

\* the steps of the background unit of one job when no fetch raises
PairWorker(task_id) ==
    \/ worker_status(task_id)
    \/ worker_progress(task_id)
    \/ worker_stage(task_id)
    \/ worker_check_start(task_id)
    \/ fetch_landing(task_id)
    \/ skip_category(task_id)
    \/ fetch_category(task_id)
    \/ skip_pagination(task_id)
    \/ fetch_pagination(task_id)
    \/ worker_check_result(task_id)
    \/ worker_complete(task_id)
    \/ worker_save(task_id)

PairNext ==
    \/ \E task_id \in PairIds, url \in Urls, name \in Names : scrape_endpoint(task_id, url, name)
    \/ \E task_id \in TaskIds : cancel_task(task_id)
    \/ \E task_id \in TaskIds : cancel_task_stage(task_id)
    \/ \E task_id \in PairIds : PairWorker(task_id)

PairSpec == PairInit /\ [][PairNext]_vars

(***************************************************************************)
(* main.py: jobs submitted one after the other, with the ids uuid4 can     *)
(* give. hex[:8] has 2^32 values and line 286 stores the record without    *)
(* looking the id up, so the id of a new job is any id, in the store or    *)
(* not. One background unit per id is followed: an id comes again once the *)
(* unit of the job that had it has returned.                               *)
(***************************************************************************)
\* POST /scrape with sync false, lines 284-302
scrape_endpoint_any(task_id, url, name) ==
    /\ wk[task_id].pc \in {"idle", "done"}
    /\ Len(saved) < MaxSaved
    /\ ScraperType(url) = "universal"
    /\ tasks' = (task_id :> NewTask(task_id, name, ScraperType(url))) @@ tasks
    /\ wk' = [wk EXCEPT ![task_id] =
                [IdleWorker EXCEPT !.pc = "queued", !.url = url, !.name = name,
                                   !.scraper_type = ScraperType(url)]]
    /\ response' = [op |-> "scrape", id |-> task_id, code |-> 200, body |-> << >>]
    /\ UNCHANGED << sy, fn, cr, cn, saved, hist >>

IdNext ==
    \/ \E task_id \in PairIds, url \in Urls, name \in Names : scrape_endpoint_any(task_id, url, name)
    \/ \E task_id \in PairIds : PairWorker(task_id)

IdSpec == PairInit /\ [][IdNext]_vars

(***************************************************************************)
(* main.py: the saved-brand endpoints. The brands directory outlives the   *)
(* process: when the service starts it holds the files earlier runs wrote. *)
(***************************************************************************)
\* int(datetime.utcnow().timestamp()) of line 122
Stamp == <<"1", "7", "0", "0", "0", "0", "0", "0", "0", "0">>

\* line 122: the file name of a saved record
FileName(rec) == ((rec.name \o <<"_">>) \o Stamp) \o <<".", "j", "s", "o", "n">>

\* what an earlier run saved for a brand
SavedRecord(brand_name) ==
    [ name |-> SafeName(brand_name),
      data |-> CompletedData("py_universal_1", LandingUrl,
                             [products |-> << >>, brandInfo |-> [name |-> brand_name, logo |-> << >>]]) ]

BrandPool == {SavedRecord(<<"A", "c", "m", "e">>), SavedRecord(<<"B", "i", "g">>), SavedRecord(<<"L", "a", "m", "p", " ", "&", " ", "C", "o">>), SavedRecord(<< >>)}

\* the file names clients ask for: those of the pool and one that was never written
FileNames == {FileName(rec) : rec \in BrandPool} \cup { <<"n", "o", "n", "e", ".", "j", "s", "o", "n">> }

\* the positions of the records stored under a file name
StoredAt(filename) == {k \in 1..Len(saved) : FileName(saved[k]) = filename}

\* no brand request has been answered; file names are character sequences
NoBrandResponse == [op |-> "none", id |-> << >>, code |-> 0, body |-> << >>]

StoreInit ==
    /\ saved \in UNION {{s \in [1..n -> BrandPool] : \A a, b \in 1..n : a # b => s[a] # s[b]} : n \in 0..MaxFiles}
    /\ tasks = << >>
    /\ wk = [id \in TaskIds |-> IdleWorker]
    /\ cr = [id \in TaskIds |-> IdleCrawl]
    /\ cn = [id \in TaskIds |-> "idle"]
    /\ response = NoBrandResponse
    /\ hist = [id \in TaskIds |-> NoHist]
    /\ sy = IdleCrawl
    /\ fn = NoCall

\* GET /brands/{filename}, lines 175-188: 404 for a missing file, the content of the
\* file, or 500 when reading it raises
get_saved_brand(filename) ==
    /\ \E code \in IF StoredAt(filename) = {} THEN {404} ELSE {200, 500} :
          response' = [op |-> "get_brand", id |-> filename, code |-> code,
                       body |-> IF code = 200
                                THEN saved[CHOOSE k \in StoredAt(filename) : TRUE].data
                                ELSE << >>]
    /\ UNCHANGED << sy, fn, tasks, wk, cr, cn, saved, hist >>

\* DELETE /brands/{filename}, lines 190-200: the file is removed, or 500 when removing
\* it raises; for a missing file the HTTPException(404) of line 198 is raised inside
\* the try block, caught by "except Exception" at line 199 and raised again with
\* status 500
delete_saved_brand(filename) ==
    /\ \E code \in IF StoredAt(filename) = {} THEN {500} ELSE {200, 500} :
          /\ saved' = IF code = 200
                       THEN SelectSeq(saved, LAMBDA rec : FileName(rec) # filename)
                       ELSE saved
          /\ response' = [op |-> "delete_brand", id |-> filename, code |-> code, body |-> << >>]
    /\ UNCHANGED << sy, fn, tasks, wk, cr, cn, hist >>

StoreNext ==
    \/ \E filename \in FileNames : get_saved_brand(filename)
    \/ \E filename \in FileNames : delete_saved_brand(filename)

StoreSpec == StoreInit /\ [][StoreNext]_vars

(***************************************************************************)
(* Properties                                                              *)
(***************************************************************************)
Jobs == DOMAIN tasks

IsTerminal(rec) == rec.status \in Terminal

IsPrefix(s, t) == Len(s) <= Len(t) /\ SubSeq(t, 1, Len(s)) = s

\* the worker of a job has returned and no cancel request for it is in flight
Settled(task_id) == wk[task_id].pc = "done" /\ cn[task_id] = "idle"

\* C1: once a job's status is completed, failed or cancelled, no step of the
\* service changes its record.
C1_TerminalIsFinal ==
    [][\A task_id \in Jobs : IsTerminal(tasks[task_id]) => tasks'[task_id] = tasks[task_id]]_vars

\* C2: a cancel request that wrote the status of a job that was not yet
\* terminal is never lost: when worker and requests are through, the status
\* is cancelled.
C2_CancelNeverLost ==
    \A task_id \in Jobs :
        (hist[task_id].cancel = "live" /\ Settled(task_id)) => tasks[task_id].status = "cancelled"

\* C3: a cancel call on a job whose status is already terminal leaves the
\* job record as it was.
C3_CancelIdempotent ==
    [][\A task_id \in Jobs :
          (IsTerminal(tasks[task_id]) /\ cancel_task(task_id)) => tasks'[task_id] = tasks[task_id]]_vars

\* C4: after a cancel request for a running crawl, the crawl makes at most one
\* further page fetch and runs no extraction on a page fetched after that one.
C4_CrawlStopsAfterCancel ==
    \A task_id \in TaskIds : hist[task_id].fetchesAfter <= 1 /\ hist[task_id].extractsAfter = 0

\* the job has been submitted, its background unit has not started, and no
\* cancel request has touched it
Waiting(task_id) == wk[task_id].pc = "queued" /\ hist[task_id].cancel = "none"

View(rec) == [status |-> rec.status, progress |-> rec.progress, stage |-> rec.stage]

\* the whole updates of a record, on its view
WholeUpdates(v) ==
    { [status |-> RunningStatus, progress |-> 20, stage |-> "Running universal scraper..."],
      [v EXCEPT !.status = "cancelled", !.stage = "Cancelled by user"],
      [status |-> "completed", progress |-> 100, stage |-> "Complete!"],
      [v EXCEPT !.status = "failed"] }

RECURSIVE Closure(_)
Closure(S) ==
    IF (UNION {WholeUpdates(v) : v \in S}) \subseteq S THEN S
    ELSE Closure(S \cup UNION {WholeUpdates(v) : v \in S})

\* the views a record has before or after whole updates
WholeViews == Closure({View(NewTask("", << >>, "universal"))})

\* C6: every snapshot get returns is the record as it is before or after whole
\* updates, never a mix of the fields of two updates.
C6_GetSeesWholeUpdates ==
    (response.op = "get" /\ response.code = 200) => View(response.body) \in WholeViews

\* C7: every submitted job eventually has, and keeps, a terminal status.
C7_EventuallyTerminal ==
    \A task_id \in TaskIds :
        [](task_id \in Jobs => <>[](task_id \in Jobs /\ IsTerminal(tasks[task_id])))

C7_Witness ==
    \E task_id \in Jobs :
        Settled(task_id) /\ hist[task_id].cancel = "live" /\ IsTerminal(tasks[task_id])

\* C8: get and cancel on an id that is not stored answer 404 and leave the
\* task store as it is.
C8_UnknownIdNotFound ==
    [][\A task_id \in RequestIds :
          (task_id \notin Jobs /\ (get_task(task_id) \/ cancel_task(task_id)))
              => (response'.code = 404 /\ tasks' = tasks)]_vars

C8_Witness ==
    /\ response.code = 404 /\ response.op = "cancel"
    /\ response.id \notin Jobs /\ Jobs # {}

\* the landing fetch of the job's crawl raised, its worker has returned and no
\* cancel request has touched the job
LandingRaised(task_id) ==
    wk[task_id].pc = "done" /\ cr[task_id].pc = "raised" /\ hist[task_id].cancel = "none"

\* C9: when the landing fetch raises for a job that is not cancelled, the job
\* ends failed with the exception's message as error, without products or
\* brandInfo, and nothing is saved.
C9_LandingFailureFailsJob ==
    \A task_id \in Jobs :
        LandingRaised(task_id) =>
            /\ tasks[task_id].status = "failed"
            /\ tasks[task_id].error = cr[task_id].error
            /\ cr[task_id].error \in FetchErrors
            /\ DOMAIN tasks[task_id] \cap {"products", "brandInfo"} = {}
            /\ \A n \in 1..Len(saved) : saved[n].data.id # task_id

C9_Witness == \E task_id \in Jobs : LandingRaised(task_id)

\* position of the first attempt to fetch url in a crawl's log, 0 when there is none
AttemptAt(s, url) ==
    IF \E n \in 1..Len(s.fetched) : s.fetched[n].url = url
    THEN CHOOSE n \in 1..Len(s.fetched) :
            s.fetched[n].url = url /\ \A k \in 1..(n - 1) : s.fetched[k].url # url
    ELSE 0

\* the pagination links the crawl follows from a category page
FollowedLinks(s, url) == Take(find_pagination(PageAt(url), s.base_url), MaxPaginationDepth)

\* the links of the category page fetched at position n of the log were dealt with
\* after it, in order
LinksInOrder(s, n, links) ==
    \A m \in 1..Len(links) :
        /\ links[m] \in s.all_seen
        /\ \A m2 \in 1..(m - 1) :
              AttemptAt(s, links[m]) > n
                 => /\ AttemptAt(s, links[m2]) > 0
                    /\ AttemptAt(s, links[m2]) < AttemptAt(s, links[m])

\* in a crawl that returned: every frontier entry was dealt with, the entries
\* that were fetched were fetched in frontier order, and the links of every
\* fetched category page were dealt with after it, in order, before the next entry
ProcessedInOrder(s) ==
    /\ \A k \in 1..Len(s.frontier) : s.frontier[k].url \in s.all_seen
    /\ \A a, b \in 1..Len(s.frontier) :
          (a < b /\ AttemptAt(s, s.frontier[a].url) > 0 /\ AttemptAt(s, s.frontier[b].url) > 0
             /\ s.frontier[a].url # s.frontier[b].url)
             => AttemptAt(s, s.frontier[a].url) < AttemptAt(s, s.frontier[b].url)
    /\ \A n \in 2..Len(s.fetched) :
          (s.fetched[n].ok /\ \E k \in 1..Len(s.frontier) : s.frontier[k].url = s.fetched[n].url)
             => LinksInOrder(s, n, FollowedLinks(s, s.fetched[n].url))

\* a page fetch after the landing page raised in this crawl
PageFailed(s) == \E n \in 2..Len(s.fetched) : ~s.fetched[n].ok

C10_State ==
    \A task_id \in Jobs :
        /\ cr[task_id].pc = "raised" => (Len(cr[task_id].fetched) = 1 /\ ~cr[task_id].fetched[1].ok)
        /\ PageFailed(cr[task_id]) => cr[task_id].pc \in {"category", "pagination", "returned"}
        /\ (PageFailed(cr[task_id]) /\ cr[task_id].pc = "returned") =>
              ProcessedInOrder(cr[task_id])
        /\ (PageFailed(cr[task_id]) /\ wk[task_id].pc = "done" /\ hist[task_id].cancel = "none") =>
              /\ tasks[task_id].status = "completed"
              /\ tasks[task_id].products = cr[task_id].result.products

\* while the crawl runs the collected records only grow; the step that returns
\* hands back the final pass over all of them, and a returned crawl stays as it is
C10_Step ==
    \A task_id \in Jobs :
        /\ cr[task_id].pc \in {"category", "pagination"}
              => IsPrefix(cr[task_id].all_products, cr'[task_id].all_products)
        /\ (cr[task_id].pc # "returned" /\ cr'[task_id].pc = "returned" /\ PageFailed(cr'[task_id]))
              => cr'[task_id].result.products = Deduplicate(cr'[task_id].all_products, 1, << >>, {})
        /\ (cr[task_id].pc = "returned" /\ cr'[task_id].pc = "returned")
              => cr'[task_id] = cr[task_id]

\* C10: a category or pagination fetch that raises never fails the job: the
\* page is skipped, the remaining frontier entries and pagination links are
\* still dealt with in order, the products collected so far are kept, and
\* the crawl returns its result (the job is completed unless cancelled).
C10_PageFailureSkipped == []C10_State /\ [][C10_Step]_vars

C10_Witness ==
    \E task_id \in Jobs :
        /\ wk[task_id].pc = "done" /\ tasks[task_id].status = "completed"
        /\ \E n \in 2..Len(cr[task_id].fetched) :
              /\ ~cr[task_id].fetched[n].ok
              /\ \E k \in (n + 1)..Len(cr[task_id].fetched) : cr[task_id].fetched[k].ok

\* the URLs the crawl with locals s has asked the fetcher for
FetchedUrls(s) == {s.fetched[k].url : k \in 1..Len(s.fetched)}

\* the URLs of the category descriptors of the crawl with locals s, appended ones included
DescriptorUrls(s) == {s.categories[k].url : k \in 1..Len(s.categories)}

\* C11: however many category descriptors a crawl has discovered, those appended while
\* it runs included, it asks the fetcher for at most 30 distinct category URLs
C11_FrontierCap ==
    Cardinality(FetchedUrls(sy) \cap DescriptorUrls(sy)) <= MaxCategories

\* a crawl with more than 30 descriptors, one of them appended, has returned after
\* asking for 30 category URLs
C11_Witness ==
    /\ sy.pc = "returned"
    /\ Len(sy.categories) = BigCats + 1
    /\ BigCats > MaxCategories
    /\ Cardinality(FetchedUrls(sy) \cap DescriptorUrls(sy)) = MaxCategories

\* the uniqueness key of a record: lower(name) + "|" + lower(productUrl)
KeyOf(p) == (Lower(p.model) \o <<"|">>) \o Lower(p.productUrl)

\* the record at position i of list a passes the Image Validity Filter
ValidAt(a, i) == is_valid_product_image(a[i].imageUrl)

\* the positions of list a that hold the first record of their key
FirstOfKey(a) == {i \in 1..Len(a) : \A j \in 1..(i - 1) : KeyOf(a[j]) # KeyOf(a[i])}

\* the positions of list a that hold the first record of their key among those with a valid image
FirstValidOfKey(a) ==
    {i \in 1..Len(a) : ValidAt(a, i) /\ \A j \in 1..(i - 1) : ValidAt(a, j) => KeyOf(a[j]) # KeyOf(a[i])}

\* list out is list a cut down to the positions in I, in the order of a
SubseqAt(out, a, I) ==
    /\ Len(out) = Cardinality(I)
    /\ \A i \in I : out[Cardinality({j \in I : j <= i})] = a[i]

\* the returned list has one record per key, each with a valid image, and is the
\* aggregate cut down to the first valid-image record of every key
DedupResult(out, a) ==
    /\ \A i \in 1..Len(out), j \in 1..Len(out) : i < j => KeyOf(out[i]) # KeyOf(out[j])
    /\ \A i \in 1..Len(out) : is_valid_product_image(out[i].imageUrl)
    /\ SubseqAt(out, a, FirstValidOfKey(a))

\* the names of the records of a list, in order
NamesOf(a) == [k \in 1..Len(a) |-> a[k].model]

RECURSIVE NamesInFetchOrder(_, _, _)
\* the names the extractor gives for the pages the crawl with locals s got, in the
\* order it got them
NamesInFetchOrder(s, i, acc) ==
    IF i > Len(s.fetched) THEN acc
    ELSE IF s.fetched[i].ok
    THEN NamesInFetchOrder(s, i + 1,
             acc \o NamesOf(extract_products_from_page(PageAt(s.fetched[i].url), s.base_url,
                                                         s.brand_name, << >>, << >>).products))
    ELSE NamesInFetchOrder(s, i + 1, acc)

\* C12 (as amended): the aggregate holds the landing page's records first, then those of
\* the category and pagination pages in crawl order; in the list a crawl returns no two
\* records share the uniqueness key, no record has an image that fails the filter, and
\* the records kept are, in aggregate order, the first record of each key among those
\* whose image passes the filter
C12_DedupKeepsFirstValid ==
    sy.pc = "returned" =>
        /\ NamesOf(sy.all_products) = NamesInFetchOrder(sy, 1, << >>)
        /\ DedupResult(sy.result.products, sy.all_products)

\* a crawl has returned a record whose key was met earlier on a record with an invalid image
C12_Witness ==
    /\ sy.pc = "returned"
    /\ \E i \in FirstValidOfKey(sy.all_products) : i \notin FirstOfKey(sy.all_products)
    /\ Len(sy.result.products) > 0

\* C12 (as stated): every record of the returned list is the first record of its key
\* in the aggregate
C12_FirstEncounteredKept ==
    sy.pc = "returned" =>
        \A k \in 1..Len(sy.result.products) :
            \E i \in FirstOfKey(sy.all_products) : sy.result.products[k] = sy.all_products[i]

\* C13: the final deduplication pass applied to its own output returns the same list,
\* the same records in the same order, whatever the aggregate list was
C13_DedupIdempotent ==
    (fn.f = "deduplicate" /\ fn.pc = "again") => fn.again = fn.out

\* the pass has been run on the output of a pass that dropped records and kept others
C13_Witness ==
    /\ fn.f = "deduplicate" /\ fn.pc = "again"
    /\ Len(fn.arg) > Len(fn.out) /\ Len(fn.out) = 2

\* C14: is_valid_product_image is false for a URL that is empty, shorter than 10
\* characters, or holds a token of the block list in any mix of cases, and true for
\* every other URL
C14_ImageFilter ==
    (fn.f = "is_valid_product_image" /\ fn.pc = "returned") =>
        /\ fn.arg \in ShortUrls \cup BlockedUrls => fn.out = FALSE
        /\ fn.arg \in PlainUrls => fn.out = TRUE
        /\ fn.out = ~ \/ fn.arg = << >>
                      \/ Len(fn.arg) < 10
                      \/ \E term \in IMAGE_EXCLUDE : Contains(Lower(fn.arg), term)

\* the filter has rejected a URL of sufficient length that holds a token in capitals
C14_Witness ==
    /\ fn.f = "is_valid_product_image" /\ fn.pc = "returned"
    /\ fn.arg \in BlockedUrls /\ Len(fn.arg) >= 10 /\ fn.arg # Lower(fn.arg)
    /\ fn.out = FALSE

\* the label pair the path of a two-segment category URL stands for
UrlLabels(url) ==
    IF url = <<"h", "t", "t", "p", ":", "/", "/", "s", "/", "p", "r", "o", "d", "u", "c", "t", "-", "c", "a", "t", "e", "g", "o", "r", "y", "/", "c", "h", "a", "i", "r", "s", "/", "e", "x", "e", "c", "u", "t", "i", "v", "e", "-", "c", "h", "a", "i", "r", "s", "/">>
    THEN << <<"C", "h", "a", "i", "r", "s">>, <<"E", "x", "e", "c", "u", "t", "i", "v", "e", " ", "C", "h", "a", "i", "r", "s">> >>
    ELSE << <<"C", "h", "a", "i", "r", "s">>, <<"S", "t", "o", "o", "l">> >>

\* C15: the labels of a category page are the URL-derived pair when the URL's path has
\* a main and a sub segment that differ, and the pair discovery produced, unchanged,
\* when the path has a single segment, equal segments, or is empty
C15_LabelPrecedence ==
    (fn.f = "category_labels" /\ fn.pc = "returned") =>
        /\ fn.arg \in TwoSegmentCats => fn.out = UrlLabels(fn.arg.url)
        /\ fn.arg \in (SingleSegmentCats \cup EqualSegmentCats) \cup EmptyPathCats =>
               fn.out = << fn.arg.mainCategory, fn.arg.subCategory >>

\* C16: a step of a POST /scrape with sync true leaves the task store, the background
\* workers and the saved files as they are; when its crawl has returned the response is
\* 200 with the crawl's products and brandInfo and productCount their number, and when
\* its crawl has raised the response is 500 with the error string
C16_SyncLeavesStore ==
    [][ sy' # sy =>
          /\ tasks' = tasks /\ saved' = saved /\ wk' = wk
          /\ sy.pc = "returned" =>
                 /\ response'.code = 200
                 /\ response'.body.success = TRUE
                 /\ response'.body.products = sy.result.products
                 /\ response'.body.brandInfo = sy.result.brandInfo
                 /\ response'.body.productCount = Len(sy.result.products)
          /\ sy.pc = "raised" =>
                 /\ response'.code = 500
                 /\ response'.body.detail = sy.error ]_vars

\* a sync request has returned products while a job is in the store
C16_Witness ==
    /\ response.op = "scrape_sync" /\ response.code = 200
    /\ response.body.productCount > 0
    /\ tasks # << >>

\* what scrape_url returns for a URL when it runs alone and no fetch raises
SoloResult(url) ==
    (CHOOSE e \in CrawlEdges : e.to.pc = "returned" /\ e.to.url = url /\ e.to.fails = 0).to.result

\* the background unit of job a, or a cancel request for it, takes a step
ActsOn(a) == wk'[a] # wk[a] \/ cr'[a] # cr[a] \/ cn'[a] # cn[a]

\* the crawl locals and the record of job b stay as they are
Untouched(b) ==
    /\ cr'[b] = cr[b]
    /\ b \in DOMAIN tasks => (b \in DOMAIN tasks' /\ tasks'[b] = tasks[b])

\* C17: with the background units of two jobs interleaved in any order, a step of one
\* job's worker, crawl or cancel request leaves the other job's visited set, aggregate
\* list and record as they are, and a crawl that returns, and a job that completes,
\* has the products the crawl gives when it runs alone
C17_JobsIsolated ==
    [][ \A a \in PairIds :
          /\ ActsOn(a) => \A b \in PairIds \ {a} : Untouched(b)
          /\ cr'[a].pc = "returned" => cr'[a].result = SoloResult(cr'[a].url)
          /\ (a \in DOMAIN tasks' /\ tasks'[a].status = "completed") =>
                 tasks'[a].products = SoloResult(wk'[a].url).products ]_vars

\* both crawls are under way, each with pages of its own fetched, and one has
\* visited more than the other
C17_Witness ==
    /\ \A a \in PairIds : cr[a].pc \in {"category", "pagination"}
    /\ cr["py_universal_1"].all_seen # cr["py_universal_2"].all_seen
    /\ "py_universal_2" \in DOMAIN tasks

\* the entries of the ItemList nodes of a page that have a name and no image
ImagelessEntries(page) ==
    UNION {{page.jsonld[n].elements[k].name : k \in {k \in 1..Len(page.jsonld[n].elements) :
                                                       page.jsonld[n].elements[k].image = << >>}} :
           n \in {n \in 1..Len(page.jsonld) : page.jsonld[n].type = "ItemList"}}

\* the extractor has returned
Extracted == fn.f = "extract_products_from_page" /\ fn.pc = "returned"

\* C18 (as amended): every record the extractor returns has a non-empty name and a
\* non-empty productUrl resolved against the base URL; its imageUrl is non-empty and
\* resolved against the base URL too, unless the record comes from an ItemList entry
\* that has no image, whose imageUrl is empty
C18_ExtractedFields ==
    Extracted =>
        \A k \in 1..Len(fn.out) :
            /\ fn.out[k].model # << >>
            /\ StartsWith(fn.out[k].productUrl, Origin(LandingUrl))
            /\ \/ StartsWith(fn.out[k].imageUrl, Origin(LandingUrl) \o <<"/">>)
               \/ fn.out[k].imageUrl = << >> /\ fn.out[k].model \in ImagelessEntries(fn.arg)

\* the extractor has returned records of its three strategies, one of them without an image
C18_Witness ==
    /\ Extracted
    /\ NamesOf(fn.out) = << <<"B", "e", "d">>, <<"T", "a", "b", "l", "e">>, <<"R", "u", "g">>, <<"M", "a", "t">> >>
    /\ fn.out[4].imageUrl = << >>

\* C18 (as stated): every record the extractor returns has a non-empty name, a
\* non-empty imageUrl and a non-empty productUrl
C18_ExtractedNonEmpty ==
    Extracted =>
        \A k \in 1..Len(fn.out) :
            fn.out[k].model # << >> /\ fn.out[k].imageUrl # << >> /\ fn.out[k].productUrl # << >>

\* the fields of a record other than those in keys
Without(rec, keys) == [k \in DOMAIN rec \ keys |-> rec[k]]

\* the progress and result fields of a record
ResultFields(rec) ==
    [k \in DOMAIN rec \cap {"progress", "products", "brandInfo", "productCount", "error"} |-> rec[k]]

\* C19 (as amended): a cancel request writes the status of the job, "cancelled", and
\* then its stage label, "Cancelled by user", and no other field; the progress and
\* result fields of an existing job change only in steps of that job's background unit
C19_CancelWritesStatusAndStage ==
    [][ \A id \in TaskIds :
          id \in DOMAIN tasks =>
             /\ cn'[id] # cn[id] =>
                    /\ Without(tasks'[id], {"status", "stage"}) = Without(tasks[id], {"status", "stage"})
                    /\ cn[id] = "idle" => (tasks'[id].status = "cancelled" /\ tasks'[id].stage = tasks[id].stage)
                    /\ cn[id] = "l103" => (tasks'[id].stage = "Cancelled by user" /\ tasks'[id].status = tasks[id].status)
             /\ ResultFields(tasks'[id]) # ResultFields(tasks[id]) => wk'[id] # wk[id] ]_vars

\* a cancel request has ended on a job the worker had begun: status and stage are
\* the cancel's, the progress is the worker's
C19_Witness ==
    /\ response.op = "cancel" /\ response.code = 200
    /\ tasks[response.id].status = "cancelled"
    /\ tasks[response.id].stage = "Cancelled by user"
    /\ tasks[response.id].progress = 20

\* C19 (as stated): a step of a cancel request changes no field of the job but status
C19_CancelWritesStatusOnly ==
    [][ \A id \in TaskIds :
          (id \in DOMAIN tasks /\ cn'[id] # cn[id]) =>
              Without(tasks'[id], {"status"}) = Without(tasks[id], {"status"}) ]_vars

\* C20: within one crawl no URL is fetched more than once: the landing URL and every
\* category and pagination URL the crawl has asked the fetcher for is not asked for again
C20_NoRefetch ==
    \A i \in 1..Len(sy.fetched), j \in 1..Len(sy.fetched) :
        i < j => sy.fetched[i].url # sy.fetched[j].url

(***************************************************************************)
(* Sub-categories, pagination, strategies, discovery, persistence, ids,    *)
(* progress and the saved-brand endpoints                                  *)
(***************************************************************************)
\* C21: a sub-category descriptor found on a category page is appended to the
\* frontier and dealt with later in the same crawl: when scrape_url returns, every
\* descriptor among the first 30 of the list, appended ones included, has its URL
\* in the visited set.
C21_SubcategoriesCrawled ==
    sy.pc = "returned" =>
        \A k \in 1..Len(sy.categories) :
            k <= MaxCategories => sy.categories[k].url \in sy.all_seen

\* the position of the first href of the page that resolves to URL u, 0 when none does
FirstHref(hrefs, u, base_url) ==
    IF \E n \in 1..Len(hrefs) : hrefs[n] # << >> /\ urljoin(base_url, hrefs[n]) = u
    THEN CHOOSE n \in 1..Len(hrefs) :
            /\ hrefs[n] # << >> /\ urljoin(base_url, hrefs[n]) = u
            /\ \A k \in 1..(n - 1) : hrefs[k] = << >> \/ urljoin(base_url, hrefs[k]) # u
    ELSE 0

\* links is a capped list of distinct URLs under the base URL, in the order in which
\* the hrefs of the page first name them
PaginationListOk(links, hrefs, base_url) ==
    /\ Len(links) <= MaxPaginationUrls
    /\ \A a, b \in 1..Len(links) : a < b => links[a] # links[b]
    /\ \A a \in 1..Len(links) :
          /\ StartsWith(links[a], base_url)
          /\ FirstHref(hrefs, links[a], base_url) > 0
    /\ \A a, b \in 1..Len(links) :
          a < b => FirstHref(hrefs, links[a], base_url) < FirstHref(hrefs, links[b], base_url)

\* the records appended to the aggregate by a step all carry the labels main, sub
NewRecordsLabelled(before, after, main, sub) ==
    \A k \in (Len(before) + 1)..Len(after) :
        after[k].mainCategory = main /\ after[k].subCategory = sub

\* a pagination fetch asks for the link at the loop's position among the first
\* MaxPaginationDepth links of the list found on the category page
FollowedFromList(s, f, links) ==
    /\ s.j <= MaxPaginationDepth /\ s.j <= Len(links)
    /\ f.url = links[s.j]

C22_Step ==
    /\ (sy.pc = "category" /\ Len(sy'.fetched) = Len(sy.fetched) + 1
          /\ sy'.fetched[Len(sy'.fetched)].ok) =>
          /\ PaginationListOk(find_pagination(PageAt(sy.frontier[sy.i].url), sy.base_url),
                              PageAt(sy.frontier[sy.i].url).paglinks, sy.base_url)
          /\ NewRecordsLabelled(sy.all_products, sy'.all_products, sy.main_cat, sy.sub_cat)
          /\ sy'.pc = "pagination" =>
                (sy'.i = sy.i /\ sy'.main_cat = sy.main_cat /\ sy'.sub_cat = sy.sub_cat)
    /\ (sy.pc = "pagination" /\ Len(sy'.fetched) = Len(sy.fetched) + 1) =>
          /\ FollowedFromList(sy, sy'.fetched[Len(sy'.fetched)],
                              find_pagination(PageAt(sy.frontier[sy.i].url), sy.base_url))
          /\ NewRecordsLabelled(sy.all_products, sy'.all_products, sy.main_cat, sy.sub_cat)
          /\ sy'.pc = "pagination" =>
                (sy'.i = sy.i /\ sy'.main_cat = sy.main_cat /\ sy'.sub_cat = sy.sub_cat)

\* C22: find_pagination returns at most 10 distinct URLs, each starting with the base
\* URL, in first-found order; the crawl fetches only the first 5 of them for a
\* category page, and the records of every followed page carry the labels of that
\* category.
C22_PaginationBounded == [][C22_Step]_vars

\* the crawl of the second site has followed five numbered pages of a category page
\* that names more than ten, and a record of a followed page is in the aggregate
C22_Witness ==
    /\ sy.url = BigUrl
    /\ Len(PaginationLinks(BigPaginationHrefs, 1, << >>, Origin(BigUrl))) > MaxPaginationUrls
    /\ Cardinality({k \in 1..Len(sy.fetched) :
                       \E m \in 1..BigPag : sy.fetched[k].url = Origin(BigUrl) \o BigPagPath(m)})
          = MaxPaginationDepth
    /\ \E k \in 1..Len(sy.all_products) :
          sy.all_products[k].model = <<"S", "t", "o", "o", "l">> /\ sy.all_products[k].mainCategory = <<"K", "0", "2">>

\* the names the three sources of a page offer: product containers, blocks in generic
\* markup, structured data
WooNames(page) == {ContainerTitle(page.woo[k]) : k \in 1..Len(page.woo)}
GenericNames(page) == {page.generic[k].heading : k \in 1..Len(page.generic)}

\* the strategy a record comes from, judged by its name: 1, 2 or 3
StrategyOf(page, rec) ==
    IF rec.model \in WooNames(page) THEN 1
    ELSE IF rec.model \in GenericNames(page) THEN 2
    ELSE 3

\* the records of a list that come from strategy n
FromStrategy(page, out, n) == {k \in 1..Len(out) : StrategyOf(page, out[k]) = n}

\* resolving the references of a container raises
ContainerRaises(c) == UrlRaises(c.href) \/ UrlRaises(c.img_src)

\* a container or block that passes every test of its strategy
GoodContainer(c, title) ==
    /\ title # << >> /\ Len(title) >= MinGenericTitleLen
    /\ c.img_src # << >> /\ is_valid_product_image(c.img_src)
    /\ c.href # << >> /\ ~ContainerRaises(c)

\* the names of the structured-data candidates of a page that have all the fields their
\* shape needs and are reached before an exception in their block
GoodJsonLdNames(page) ==
    UNION {IF page.jsonld[n].type = "Product"
           THEN {page.jsonld[n].name : x \in {1} \cap
                    (IF page.jsonld[n].name # << >> /\ page.jsonld[n].image # << >>
                        /\ ~NodeRaises(page.jsonld[n]) THEN {1} ELSE {})}
           ELSE {page.jsonld[n].elements[k].name :
                    k \in {k \in 1..Len(page.jsonld[n].elements) :
                             /\ page.jsonld[n].elements[k].name # << >>
                             /\ page.jsonld[n].elements[k].url # << >>
                             /\ \A j \in 1..k : ~EntryRaises(page.jsonld[n].elements[j])}} :
           n \in {n \in 1..Len(page.jsonld) : page.jsonld[n].type \in {"Product", "ItemList"}}}

\* the order of the output, the gate of the generic scan, and the structured-data pass
StrategiesInOrder(page, out) ==
    /\ \A a, b \in 1..Len(out) : a < b => StrategyOf(page, out[a]) <= StrategyOf(page, out[b])
    /\ Cardinality(FromStrategy(page, out, 1)) >= StrategyBThreshold
          => FromStrategy(page, out, 2) = {}
    /\ Cardinality(FromStrategy(page, out, 1)) < StrategyBThreshold
          => \A k \in 1..Len(page.generic) :
                GoodContainer(page.generic[k], page.generic[k].heading)
                   => page.generic[k].heading \in Range(NamesOf(out))
    /\ GoodJsonLdNames(page) \subseteq Range(NamesOf(out))

\* C23 (as amended): Strategy B runs if and only if Strategy A produced fewer than 5
\* records, Strategy C always runs, and the output is Strategy A's records followed by
\* Strategy B's followed by Strategy C's; an exception inside one strategy ends only
\* the container or structured-data block being handled: the containers and blocks
\* after it still yield their records, and so do the following strategies.
C23_StrategiesRun ==
    Extracted =>
        /\ StrategiesInOrder(fn.arg, fn.out)
        /\ \A k \in 1..Len(fn.arg.woo) :
              GoodContainer(fn.arg.woo[k], ContainerTitle(fn.arg.woo[k]))
                 => ContainerTitle(fn.arg.woo[k]) \in Range(NamesOf(fn.out))

\* the extractor has returned from a page on which each strategy met an exception:
\* four containers, the block and the structured data after them gave records
C23_Witness ==
    /\ Extracted
    /\ fn.arg = StrategyPage(4, TRUE)
    /\ NamesOf(fn.out) = << <<"B", "e", "d", "1">>, <<"B", "e", "d", "2">>, <<"B", "e", "d", "3">>, <<"B", "e", "d", "4">>, <<"T", "a", "b", "l", "e">>, <<"R", "u", "g">>, <<"V", "a", "s", "e">> >>

\* the elements of a source after position k gave no record
NoneAfter(names, k, out) ==
    \A l \in (k + 1)..Len(names) : names[l] \notin Range(NamesOf(out))

\* the names of the candidates of the structured-data blocks, block by block
BlockNames(page) ==
    [n \in 1..Len(page.jsonld) |->
        IF page.jsonld[n].type = "ItemList"
        THEN {page.jsonld[n].elements[k].name : k \in 1..Len(page.jsonld[n].elements)}
        ELSE {page.jsonld[n].name}]

\* C23 (as stated): the gate, the unconditional structured-data pass and the order of
\* the output, and after an exception inside a strategy no further record comes from
\* that strategy
C23_ExceptionEndsStrategy ==
    Extracted =>
        /\ StrategiesInOrder(fn.arg, fn.out)
        /\ \A k \in 1..Len(fn.arg.woo) :
              ContainerRaises(fn.arg.woo[k])
                 => NoneAfter([l \in 1..Len(fn.arg.woo) |-> ContainerTitle(fn.arg.woo[l])], k, fn.out)
        /\ \A k \in 1..Len(fn.arg.generic) :
              ContainerRaises(fn.arg.generic[k])
                 => NoneAfter([l \in 1..Len(fn.arg.generic) |-> fn.arg.generic[l].heading], k, fn.out)
        /\ \A k \in 1..Len(fn.arg.jsonld) :
              fn.arg.jsonld[k].type = "Unparsable"
                 => \A l \in (k + 1)..Len(fn.arg.jsonld) :
                       BlockNames(fn.arg)[l] \cap Range(NamesOf(fn.out)) = {}

\* the Product nodes and the ItemList entries of the structured data of a page
ProductNodes(page) == {page.jsonld[n] : n \in {n \in 1..Len(page.jsonld) : page.jsonld[n].type = "Product"}}
ListEntries(page) ==
    UNION {Range(page.jsonld[n].elements) :
              n \in {n \in 1..Len(page.jsonld) : page.jsonld[n].type = "ItemList"}}

\* a record of the list has this name, or this productUrl
HasName(out, name) == \E k \in 1..Len(out) : out[k].model = name
HasUrl(out, url) == \E k \in 1..Len(out) : out[k].productUrl = url

Discovered == fn.f = "discover_categories" /\ fn.pc = "returned"

NoCategories == [categories |-> << >>, seen |-> {}]

\* what top-level menu selector n yields on its own, and what the flat scan does
SelectorYield(page, n, base_url) == MenuItems(page.menus[n], 1, NoCategories, base_url).categories
FlatYield(page, base_url) == FlatLinks(page.anchors, 1, NoCategories, base_url).categories

\* the menu selectors of a page that yield a descriptor
Yielding(page, base_url) == {n \in 1..Len(page.menus) : SelectorYield(page, n, base_url) # << >>}

\* the one source the descriptors of a page come from: the first menu selector that
\* yields, else the flat scan, else the conventional paths
OneSource(page, base_url) ==
    IF Yielding(page, base_url) # {}
    THEN SelectorYield(page, CHOOSE n \in Yielding(page, base_url) :
                                 \A m \in Yielding(page, base_url) : n <= m, base_url)
    ELSE IF FlatYield(page, base_url) # << >> THEN FlatYield(page, base_url)
    ELSE CommonCategories(base_url)

\* C25: the descriptors come from exactly one source: the first top-level menu selector
\* that yields any, else the flat keyword scan, else the fixed conventional paths; their
\* URLs are pairwise distinct and none equals the base URL.
C25_FallbackChain ==
    Discovered =>
        /\ fn.out = OneSource(fn.arg, Origin(LandingUrl))
        /\ \A a, b \in 1..Len(fn.out) : a < b => fn.out[a].url # fn.out[b].url
        /\ \A a \in 1..Len(fn.out) : fn.out[a].url # Origin(LandingUrl)

\* discovery has returned the descriptors of the second menu selector of a page whose
\* third selector and whose links offer others
C25_Witness ==
    /\ Discovered
    /\ fn.arg = MenuPage
    /\ [k \in 1..Len(fn.out) |-> fn.out[k].url]
          = << <<"h", "t", "t", "p", ":", "/", "/", "s", "/", "c", "h", "a", "i", "r", "s", "/">>, <<"h", "t", "t", "p", ":", "/", "/", "s", "/", "s", "e", "a", "t", "i", "n", "g", "/", "o", "f", "f", "i", "c", "e", "/">> >>

\* the records handed to persistence for job task_id
SavedOf(task_id) == {k \in 1..Len(saved) : saved[k].data.id = task_id}

\* the record of job task_id has received the update that sets it Completed
WrittenCompleted(task_id) ==
    /\ task_id \in DOMAIN tasks
    /\ "completedAt" \in DOMAIN tasks[task_id]
    /\ tasks[task_id].progress = 100

C26_State ==
    \A k \in 1..Len(saved) :
        /\ WrittenCompleted(saved[k].data.id)
        /\ tasks[saved[k].data.id].status # "failed"
        /\ Cardinality(SavedOf(saved[k].data.id)) = 1
        /\ saved[k].data.status = "completed"
        /\ saved[k].data.productCount = Len(saved[k].data.products)
        /\ "sourceUrl" \in DOMAIN saved[k].data

C26_Step ==
    /\ saved' # saved =>
          /\ Len(saved') = Len(saved) + 1
          /\ SubSeq(saved', 1, Len(saved)) = saved
          /\ WrittenCompleted(saved'[Len(saved')].data.id)
    /\ \A task_id \in Jobs :
          (wk[task_id].pc = "done" /\ ~WrittenCompleted(task_id)) => SavedOf(task_id)' = {}

\* C26: a job record is handed to persistence only after the job's record received the
\* update that sets it Completed, at most once per job, with status "completed",
\* productCount equal to the number of products and a sourceUrl field; a job whose
\* background unit ended without that update (the crawl raised, or the unit saw the
\* cancellation) is never persisted.
C26_PersistedOnceCompleted == []C26_State /\ [][C26_Step]_vars

\* a completed job with products has been persisted and was cancelled afterwards
C26_Witness ==
    \E task_id \in Jobs :
        /\ Cardinality(SavedOf(task_id)) = 1
        /\ saved[1].data.productCount > 0
        /\ wk[task_id].pc = "done"
        /\ tasks[task_id].status = "cancelled"

\* C27: submitting a new asynchronous job never replaces or modifies the record of an
\* existing job: the id the request answers with is not the id of a job already in
\* the task store, and every record in the store is left as it was.
C27_FreshId ==
    [][response'.op = "scrape" =>
          /\ response'.id \notin DOMAIN tasks
          /\ \A task_id \in DOMAIN tasks : tasks'[task_id] = tasks[task_id]]_vars

C28_State == \A task_id \in Jobs : tasks[task_id].progress \in 0..100

C28_Step ==
    \A task_id \in Jobs :
        /\ tasks'[task_id].progress >= tasks[task_id].progress
        /\ (tasks'[task_id].progress = 100 /\ tasks[task_id].progress # 100) =>
              /\ tasks'[task_id].status = "completed"
              /\ "completedAt" \notin DOMAIN tasks[task_id]
              /\ "completedAt" \in DOMAIN tasks'[task_id]

\* C28: a job's progress value is always an integer in 0..100 and never decreases,
\* whatever the order of the steps of the background unit and of the cancel requests;
\* the value 100 is written only by the update that sets the job Completed.
C28_ProgressMonotone == []C28_State /\ [][C28_Step]_vars

\* a job that was asked to cancel while it ran has progress 100 and the status the
\* cancel request wrote
C28_Witness ==
    \E task_id \in Jobs :
        /\ tasks[task_id].progress = 100
        /\ hist[task_id].cancel = "live"
        /\ tasks[task_id].status = "cancelled"

\* C29: reading and deleting a saved brand record report a missing key the same way:
\* get and delete of a file name that is not stored both answer 404, not a server
\* error, and leave the stored records unchanged.
C29_MissingKeyNotFound ==
    [][\A filename \in FileNames :
          (response'.op \in {"get_brand", "delete_brand"} /\ response'.id = filename
             /\ StoredAt(filename) = {})
             => (response'.code = 404 /\ saved' = saved)]_vars
====
